---- MODULE Spec2Model ----
(***************************************************************************)
(* Model of the research workflow of the Adversarial Knowledge             *)
(* Cartographer: the LangGraph state machine of agents/workflow.py and the *)
(* execute() methods of the five agents it drives.                         *)
(*                                                                         *)
(* One run of WorkflowOrchestrator.execute(topic) is modelled.  The        *)
(* external collaborators (search backend, text generation, checkpoint     *)
(* directory) are nondeterministic: a search returns any short list of     *)
(* result domains or raises, the generation service returns any list of    *)
(* counter-queries or fails, the checkpoint directory accepts writes or    *)
(* does not.                                                               *)
(***************************************************************************)
EXTENDS Integers, Sequences, FiniteSets, TLC

(***************************************************************************)
(* Bounds of the model.                                                    *)
(***************************************************************************)
MaxIterations == 2      \* max_iterations is drawn from 1..MaxIterations
MinSources == 2         \* ScoutAgent.min_sources, scaled to the domains
MaxDomains == 2         \* distinct web domains the search backend can return
MaxResults == 1         \* results returned by one search call
MaxNewRels == 1         \* relationships one extraction can produce
MaxCounterQueries == 3  \* longest counter-query list the generator returns
MaxRawEntities == 2     \* longest entity list one extraction returns
MaxOps == 3             \* calls made on one StateCheckpoint
MaxRetries == 3         \* largest max_retries a retry loop is given
MaxTopicLen == 3        \* characters of a topic given to initialize
MaxEntities == 3        \* entities given to one deduplication
ScoreSteps == 4         \* a score of 1.0, in steps of the score grid
MaxInstances == 2       \* relationships of a graph given to the adversary
MaxSessions == 2        \* research requests made of the API

(***************************************************************************)
(* Program constants.                                                      *)
(***************************************************************************)
MinCounterQueries == 3
MaxSourcesPerQuery == 10
TopicPrefixLen == 50
FuzzyMatchThreshold == 85     \* fuzzy_match_threshold = 0.85, in percent
RelationshipThreshold == 50   \* relationship_threshold = 0.5, in percent
MinEntityLength == 2          \* a label is auto-created when longer than this
MaxBackoff == 60              \* max_backoff, in seconds
BackoffFactor == 2            \* backoff_factor
RateLimitStatus == 429        \* the status code that search calls retry
DomainWeight == 4             \* DOMAIN_WEIGHT, in tenths
CitationWeight == 3           \* CITATION_WEIGHT, in tenths
RecencyWeight == 3            \* RECENCY_WEIGHT, in tenths
BadRequestStatus == 400       \* the status code of a rejected request

Domains == 1..MaxDomains

\* The four initial queries built from the topic (scout.py:441-446).
InitialQueries == <<"t", "t overview", "t research", "t analysis">>

\* Query strings the generation service can return: a new one, and the topic
\* itself (which the first gathering phase has normally executed already).
GeneratedQueries == {"t", "q1"}

AllQueries ==
    {InitialQueries[i] : i \in 1..Len(InitialQueries)} \cup GeneratedQueries

Phases == {"scout", "mapper", "adversary", "judge", "synthesis"}

VARIABLES
    pc,                  \* position of the run in the graph
    iteration,           \* WorkflowState.iteration
    max_iterations,      \* WorkflowState.max_iterations
    sources,             \* WorkflowState.sources, each document by its domain
    knowledge_graph,     \* WorkflowState.knowledge_graph
    adversarial_queries, \* WorkflowState.adversarial_queries
    executed_queries,    \* WorkflowState.executed_queries
    synthesis_report,    \* WorkflowState.synthesis_report
    current_phase,       \* WorkflowState.current_phase
    status_message,      \* WorkflowState.status_message as <<phase, kind>>
    min_sources,         \* ScoutAgent.min_sources
    enable_checkpoints,  \* WorkflowOrchestrator.enable_checkpoints
    checkpoints,         \* identifiers present in the checkpoint directory
    store_writable,      \* the checkpoint directory accepts writes
    queries,             \* ScoutAgent.execute: queries still to run
    new_sources,         \* ScoutAgent.execute: new_sources
    existing_domains,    \* ScoutAgent.execute: existing_domains
    issued,              \* number of search calls made per query string
    loopbacks,           \* number of "continue" decisions taken
    runs,                \* number of executions of each phase
    pre,                 \* data fields and status when the last phase started
    last,                \* the last step taken and how it ended
    topic,               \* per call of execute: the topic argument
    state,               \* per call of execute: its WorkflowState
    at,                  \* per call of execute: its position
    store,               \* the checkpoint directory: identifier -> document
    result,              \* per call of execute: the state it returned
    written,             \* per call of execute: identifiers it has written
    selected,            \* per call of execute: latest_checkpoint of recovery
    graph,               \* the knowledge graph of the state, in full
    incoming,            \* MapperAgent.execute: new_knowledge_graph
    files,               \* StateCheckpoint: the files of checkpoint_dir
    saving,              \* the save_checkpoint call that is in progress
    latest,              \* per file: the state of the last save that returned
    observed,            \* the last call on the StateCheckpoint that ended
    ops,                 \* number of calls begun on the StateCheckpoint
    max_retries,         \* retry loop: max_retries
    initial_backoff,     \* retry loop: initial_backoff
    jitter,              \* retry loop: jitter
    attempt,             \* retry loop: attempt
    backoff_time,        \* retry loop: backoff_time
    trace,               \* retry loop: invocations and sleeps, in order
    ended,               \* retry loop: how the call ended
    args,                \* a call of a function: its arguments
    ret,                 \* a call of a function: what it returned or raised
    research_sessions,   \* api.app: research_sessions, session id -> state
    session_status,      \* api.app: session_status, session id -> status
    task                 \* per request: position of request and background task

vars == <<pc, iteration, max_iterations, sources, knowledge_graph,
          adversarial_queries, executed_queries, synthesis_report,
          current_phase, status_message, min_sources, enable_checkpoints,
          store_writable, checkpoints, queries, new_sources, existing_domains,
          issued,
          loopbacks, runs, pre, last,
          topic, state, at, store, result, written, selected,
          graph, incoming,
          files, saving, latest, observed, ops,
          max_retries, initial_backoff, jitter, attempt, backoff_time, trace,
          ended,
          args, ret,
          research_sessions, session_status, task>>

stateVars == <<iteration, max_iterations, sources, knowledge_graph,
               adversarial_queries, executed_queries, synthesis_report,
               current_phase, status_message>>

scoutLocals == <<queries, new_sources, existing_domains>>

\* The variables of the calls of execute that share a checkpoint directory.
storeVars == <<topic, state, at, store, result, written, selected>>

\* The variables of the run whose knowledge graph is kept in full.
graphVars == <<graph, incoming>>

\* The variables of the calls on a StateCheckpoint.
checkpointVars == <<files, saving, latest, observed, ops>>

\* The variables of a retry loop.
retryVars == <<max_retries, initial_backoff, jitter, attempt, backoff_time,
               trace, ended>>

\* The variables of a single call of a function.
callVars == <<args, ret>>

\* The variables of the sessions of the API.
sessionVars == <<research_sessions, session_status, task>>

utilVars == <<checkpointVars, retryVars, callVars>>

configVars == <<min_sources, enable_checkpoints, store_writable, storeVars,
                graphVars, utilVars, sessionVars>>

\* No call on a StateCheckpoint, no retry loop and no function call is in
\* progress.
UtilIdle ==
    /\ files = <<>>
    /\ saving = [active |-> FALSE]
    /\ latest = <<>>
    /\ observed = [op |-> "none"]
    /\ ops = 0
    /\ max_retries = 0
    /\ initial_backoff = 0
    /\ jitter = FALSE
    /\ attempt = 0
    /\ backoff_time = 0
    /\ trace = <<>>
    /\ ended = [kind |-> "none"]
    /\ args = [op |-> "none"]
    /\ ret = [kind |-> "none"]

\* The session identifiers: uuid4 gives every accepted request a fresh one.
Sessions == 1..MaxSessions

\* session_id not in research_sessions
NoSession == [kind |-> "absent"]

\* No request has been made of the API.
SessionsIdle ==
    /\ research_sessions = [s \in Sessions |-> NoSession]
    /\ session_status = [s \in Sessions |-> "absent"]
    /\ task = [s \in Sessions |-> [at |-> "none"]]

(***************************************************************************)
(* Helpers.                                                                *)
(***************************************************************************)
Range(s) == {s[i] : i \in 1..Len(s)}

SeqsUpTo(S, lo, hi) == UNION {[1..n -> S] : n \in lo..hi}

\* [q for q in qs if q not in executed]
RECURSIVE FilterExecuted(_, _)
FilterExecuted(qs, executed) ==
    IF qs = <<>> THEN <<>>
    ELSE IF Head(qs) \in executed
         THEN FilterExecuted(Tail(qs), executed)
         ELSE <<Head(qs)>> \o FilterExecuted(Tail(qs), executed)

\* The data fields of the workflow state.
Data == [sources |-> sources,
         knowledge_graph |-> knowledge_graph,
         adversarial_queries |-> adversarial_queries,
         executed_queries |-> executed_queries,
         synthesis_report |-> synthesis_report]

\* What a phase finds when it starts.
Snapshot == [data |-> Data, status |-> status_message]

EmptyGraph == [relationships |-> 0, annotated |-> FALSE]

\* not state.knowledge_graph or not state.knowledge_graph.relationships
NoGraph(kg) == kg.relationships = 0

(***************************************************************************)
(* Strings whose characters matter (topics, checkpoint identifiers) are    *)
(* sequences of code points, compared as Python compares str values.       *)
(***************************************************************************)
Ord == [sp |-> 32, zero |-> 48, us |-> 95, a |-> 97, b |-> 98, c |-> 99, d
        |-> 100, e |-> 101, f |-> 102, g |-> 103, h |-> 104, i |-> 105, j
        |-> 106, k |-> 107, l |-> 108, m |-> 109, n |-> 110, o |-> 111, p
        |-> 112, q |-> 113, r |-> 114, s |-> 115, t |-> 116, u |-> 117, v
        |-> 118, w |-> 119, x |-> 120, y |-> 121, z |-> 122]

\* str(n) for a natural number.
RECURSIVE Digits(_)
Digits(n) ==
    IF n < 10 THEN <<Ord.zero + n>>
    ELSE Digits(n \div 10) \o <<Ord.zero + (n % 10)>>

\* s[:n]
Take(s, n) == SubSeq(s, 1, IF Len(s) < n THEN Len(s) ELSE n)

\* s.replace(' ', '_')
Replace(s) == [i \in 1..Len(s) |-> IF s[i] = Ord.sp THEN Ord.us ELSE s[i]]

\* s.strip() where the only whitespace is the space.
RECURSIVE Strip(_)
Strip(s) ==
    IF s = <<>> THEN s
    ELSE IF Head(s) = Ord.sp THEN Strip(Tail(s))
    ELSE IF s[Len(s)] = Ord.sp THEN Strip(SubSeq(s, 1, Len(s) - 1))
    ELSE s

\* s.startswith(prefix)
StartsWith(s, prefix) ==
    /\ Len(prefix) <= Len(s)
    /\ SubSeq(s, 1, Len(prefix)) = prefix

\* a < b on str values.
RECURSIVE LexLess(_, _)
LexLess(a, b) ==
    IF b = <<>> THEN FALSE
    ELSE IF a = <<>> THEN TRUE
    ELSE IF Head(a) = Head(b) THEN LexLess(Tail(a), Tail(b))
    ELSE Head(a) < Head(b)

\* sorted(ids)[-1] for a non-empty set of identifiers.
SortedLast(ids) == CHOOSE x \in ids : \A y \in ids \ {x} : LexLess(y, x)

\* The phase names as they are written into checkpoint identifiers.
PhaseName ==
    [scout |-> <<Ord.s, Ord.c, Ord.o, Ord.u, Ord.t>>,
     mapper |-> <<Ord.m, Ord.a, Ord.p, Ord.p, Ord.e, Ord.r>>,
     adversary |-> <<Ord.a, Ord.d, Ord.v, Ord.e, Ord.r, Ord.s, Ord.a, Ord.r,
                     Ord.y>>,
     judge |-> <<Ord.j, Ord.u, Ord.d, Ord.g, Ord.e>>,
     synthesis |-> <<Ord.s, Ord.y, Ord.n, Ord.t, Ord.h, Ord.e, Ord.s, Ord.i,
                     Ord.s>>]

\* f"{state.topic[:50].replace(' ', '_')}_{phase}_iter{state.iteration}"
CheckpointId(state_topic, phase, state_iteration) ==
    Replace(Take(state_topic, TopicPrefixLen)) \o <<Ord.us>>
        \o PhaseName[phase]
        \o <<Ord.us, Ord.i, Ord.t, Ord.e, Ord.r>> \o Digits(state_iteration)

\* topic[:50].replace(' ', '_') of the recovery code in execute.
TopicPrefix(topic_arg) == Replace(Take(topic_arg, TopicPrefixLen))

\* Topic arguments of execute: "a", "a b" and " a".
Topics == {<<Ord.a>>, <<Ord.a, Ord.sp, Ord.b>>, <<Ord.sp, Ord.a>>}

\* Calls of execute that are in progress at the same time, each on its own
\* orchestrator, all on the same checkpoint directory.
Calls == {1, 2}

\* The fields of a WorkflowState that identifiers and reloading depend on,
\* as initialize builds them.
Initialize(topic_arg) ==
    [topic |-> Strip(topic_arg),
     iteration |-> 0,
     knowledge_graph |-> [entities |-> <<>>, relationships |-> <<>>],
     executed_queries |-> {},
     current_phase |-> "initialized"]

EmptyStore == [id \in {} |-> {}]

NoResult == [kind |-> "none"]

(***************************************************************************)
(* Knowledge graphs in full: entity labels, relationships and conflicts,   *)
(* as MapperAgent builds and merges them.                                  *)
(***************************************************************************)

\* Entity labels the extraction can return.  None is empty, carries
\* surrounding whitespace or has an upper-case letter.
Labels == {"coffee", "coffees", "coffeebean", "ai"}

\* Entity strings as a caller can pass them: with upper-case letters, with
\* surrounding whitespace, blank.
EntityStrings ==
    {"Coffee", "coffee", "COFFEE", " coffee", " ", "coffees", "Tea", "Water"}

\* entity.strip()
StripLabel(label) ==
    CASE label = " coffee" -> "coffee"
      [] label = " " -> ""
      [] OTHER -> label

\* str.lower()
Lower(label) ==
    CASE label \in {"Coffee", "COFFEE"} -> "coffee"
      [] label = "Tea" -> "tea"
      [] label = "Water" -> "water"
      [] OTHER -> label

\* len(label.strip())
LabelLength(label) ==
    CASE label = "coffee" -> 6
      [] label = "coffees" -> 7
      [] label = "coffeebean" -> 10
      [] label = "ai" -> 2

\* _calculate_similarity: SequenceMatcher(None, a.lower(), b.lower()).ratio()
\* of the labels, in percent.
Ratio(a, b) ==
    IF a = b THEN 100
    ELSE CASE {a, b} = {"coffee", "coffees"} -> 92
           [] {a, b} = {"coffee", "coffeebean"} -> 75
           [] {a, b} = {"coffees", "coffeebean"} -> 70
           [] {a, b} = {"coffeebean", "ai"} -> 16
           [] {a, b} = {"coffee", "tea"} -> 22
           [] {a, b} = {"coffee", "water"} -> 18
           [] {a, b} = {"coffees", "tea"} -> 20
           [] {a, b} = {"coffees", "water"} -> 16
           [] {a, b} = {"tea", "water"} -> 50
           [] OTHER -> 0

Similarity(a, b) == Ratio(Lower(a), Lower(b))

EmptyKnowledgeGraph ==
    [entities |-> <<>>, relationships |-> <<>>, conflicts |-> <<>>]

\* A Relationship as _extract_relationships creates it.
NewRelationship(source, target) ==
    [source |-> source, relation |-> "r", target |-> target,
     citation |-> "u", credibility |-> 100]

\* The answers of the extraction: an entity list, at most one relationship
\* between any two labels, at most one conflict.
KnowledgeData ==
    [entities : SeqsUpTo(Labels, 0, MaxRawEntities),
     relationships : {<<>>} \cup
        {<<NewRelationship(a, b)>> : a \in Labels, b \in Labels},
     conflicts : {<<>>, <<"c">>}]

\* KnowledgeGraph.validate_referential_integrity, as a test.
ReferentialIntegrity(kg) ==
    \A i \in 1..Len(kg.relationships) :
        /\ kg.relationships[i].source \in Range(kg.entities)
        /\ kg.relationships[i].target \in Range(kg.entities)

\* The loop of _deduplicate_entities: each entity is stripped; an entity
\* that is then empty, or similar to one kept before, is dropped.
RECURSIVE DeduplicateInto(_, _)
DeduplicateInto(unique_entities, entities) ==
    IF entities = <<>> THEN unique_entities
    ELSE LET entity == StripLabel(Head(entities))
         IN IF entity = ""
            THEN DeduplicateInto(unique_entities, Tail(entities))
            ELSE IF \E i \in 1..Len(unique_entities) :
                        Similarity(entity, unique_entities[i])
                            >= FuzzyMatchThreshold
                 THEN DeduplicateInto(unique_entities, Tail(entities))
                 ELSE DeduplicateInto(Append(unique_entities, entity),
                                      Tail(entities))

\* Faulty variant of DeduplicateEntities: every non-blank entity is kept.
DeduplicateEntitiesKeepsAll(entities) ==
    SelectSeq([i \in 1..Len(entities) |-> StripLabel(entities[i])],
              LAMBDA entity : entity # "")

\* _deduplicate_entities
DeduplicateEntities(entities) == DeduplicateInto(<<>>, entities)

NoMatch == [match |-> FALSE]

\* The loop of _find_best_entity_match: the first entity with the highest
\* score, when that score reaches the threshold.
RECURSIVE FindBestFrom(_, _, _, _, _)
FindBestFrom(entity_name, entity_list, threshold, best_match, best_score) ==
    IF entity_list = <<>> THEN best_match
    ELSE LET entity == Head(entity_list)
             score == Similarity(entity_name, entity)
         IN IF score >= threshold /\ score > best_score
            THEN FindBestFrom(entity_name, Tail(entity_list), threshold,
                              [match |-> TRUE, entity |-> entity], score)
            ELSE FindBestFrom(entity_name, Tail(entity_list), threshold,
                              best_match, best_score)

\* _find_best_entity_match
FindBestEntityMatch(entity_name, entity_list, threshold) ==
    FindBestFrom(entity_name, entity_list, threshold, NoMatch, 0)

\* The first entity of the list that is similar enough to the label, or the
\* label itself when there is none.
RECURSIVE FuzzyMatch(_, _)
FuzzyMatch(label, entities) ==
    IF entities = <<>> THEN label
    ELSE IF Similarity(label, Head(entities)) >= RelationshipThreshold
         THEN Head(entities)
         ELSE FuzzyMatch(label, Tail(entities))

HasFuzzyMatch(label, entities) ==
    \E i \in 1..Len(entities) :
        Similarity(label, entities[i]) >= RelationshipThreshold

\* The relationship loop of build_knowledge_graph: exact match, then fuzzy
\* match against the entities, which rewrites the label, then
\* auto-creation of a label that is long enough; a relationship with an
\* unmatched end is dropped.
RECURSIVE FilterRelationships(_, _, _)
FilterRelationships(relationships, unique_entities, valid_relationships) ==
    IF relationships = <<>>
    THEN [entities |-> unique_entities,
          relationships |-> valid_relationships]
    ELSE LET rel == Head(relationships)
             entity_names == Range(unique_entities)
             source_found ==
                 \/ rel.source \in entity_names
                 \/ HasFuzzyMatch(rel.source, unique_entities)
             target_found ==
                 \/ rel.target \in entity_names
                 \/ HasFuzzyMatch(rel.target, unique_entities)
             source == IF rel.source \in entity_names THEN rel.source
                       ELSE FuzzyMatch(rel.source, unique_entities)
             target == IF rel.target \in entity_names THEN rel.target
                       ELSE FuzzyMatch(rel.target, unique_entities)
             create_source ==
                 ~source_found /\ LabelLength(rel.source) > MinEntityLength
             create_target ==
                 ~target_found /\ LabelLength(rel.target) > MinEntityLength
             with_source == IF create_source
                            THEN Append(unique_entities, rel.source)
                            ELSE unique_entities
             with_target == IF create_target
                            THEN Append(with_source, rel.target)
                            ELSE with_source
             source_match == source_found \/ create_source
             target_match == target_found \/ create_target
         IN FilterRelationships(
                Tail(relationships), with_target,
                IF source_match /\ target_match
                THEN Append(valid_relationships,
                            [rel EXCEPT !.source = source,
                                        !.target = target])
                ELSE valid_relationships)

\* build_knowledge_graph on the answer of the extraction.  KnowledgeGraph
\* rejects an entity list with a repeated label; the ValidationError is
\* caught and an empty graph is returned.
BuildKnowledgeGraph(knowledge_data) ==
    LET filtered ==
            FilterRelationships(knowledge_data.relationships,
                                DeduplicateEntities(knowledge_data.entities),
                                <<>>)
    IN IF Len(filtered.entities) # Cardinality(Range(filtered.entities))
       THEN EmptyKnowledgeGraph
       ELSE [entities |-> filtered.entities,
             relationships |-> filtered.relationships,
             conflicts |-> knowledge_data.conflicts]

\* Faulty variant of MergeKnowledgeGraphs: the merged graph is returned
\* without the referential-integrity check.
MergeWithoutValidation(existing, new) ==
    [raised |-> FALSE,
     graph |-> [entities |->
                    DeduplicateEntities(existing.entities \o new.entities),
                relationships |->
                    existing.relationships \o new.relationships,
                conflicts |-> existing.conflicts \o new.conflicts]]

\* Faulty variant of MergeKnowledgeGraphs: a relationship that the existing
\* graph already holds is not added again.
MergeDropsRepeatedRelationships(existing, new) ==
    LET merged ==
            [entities |->
                 DeduplicateEntities(existing.entities \o new.entities),
             relationships |->
                 existing.relationships \o
                 SelectSeq(new.relationships,
                           LAMBDA rel :
                               rel \notin Range(existing.relationships)),
             conflicts |-> existing.conflicts \o new.conflicts]
    IN IF ReferentialIntegrity(merged)
       THEN [raised |-> FALSE, graph |-> merged]
       ELSE [raised |-> TRUE]

\* _merge_knowledge_graphs: raises ValueError when a relationship of the
\* merged graph names an entity that is not in the merged entity list.
MergeKnowledgeGraphs(existing, new) ==
    LET merged ==
            [entities |->
                 DeduplicateEntities(existing.entities \o new.entities),
             relationships |->
                 existing.relationships \o new.relationships,
             conflicts |-> existing.conflicts \o new.conflicts]
    IN IF ReferentialIntegrity(merged)
       THEN [raised |-> FALSE, graph |-> merged]
       ELSE [raised |-> TRUE]

\* annotate_relationships_with_credibility: each relationship is created
\* again with the credibility of its citation.
AnnotateRelationships(relationships, score) ==
    [i \in 1..Len(relationships) |->
        [source |-> relationships[i].source,
         relation |-> relationships[i].relation,
         target |-> relationships[i].target,
         citation |-> relationships[i].citation,
         credibility |-> score]]

(***************************************************************************)
(* The graph built by _build_graph.                                        *)
(***************************************************************************)
\* Faulty variant of Edge: the gathering phase is wired to the challenging
\* phase, so the extracting phase is never run.
EdgeSkipsMapper(node) ==
    CASE node = "scout" -> "adversary"
      [] node = "mapper" -> "adversary"
      [] node = "adversary" -> "decide"
      [] node = "judge" -> "synthesis"
      [] node = "synthesis" -> "done"

Edge(node) ==
    CASE node = "scout" -> "mapper"
      [] node = "mapper" -> "adversary"
      [] node = "adversary" -> "decide"
      [] node = "judge" -> "synthesis"
      [] node = "synthesis" -> "done"

\* Faulty variant of ConditionalEdge: "proceed" is wired to END.
ConditionalEdgeProceedToEnd(decision) ==
    IF decision = "continue" THEN "scout" ELSE "done"

ConditionalEdge(decision) ==
    IF decision = "continue" THEN "scout" ELSE "judge"

\* Faulty variant of ShouldContinueIteration: the limit test is strict.
ShouldContinueIterationStrict(it, maxit, advq) ==
    IF it > maxit THEN "proceed"
    ELSE IF Len(advq) > 0 THEN "continue"
    ELSE "proceed"

\* Faulty variant of ShouldContinueIteration: the limit is not tested.
ShouldContinueIterationNoLimit(it, maxit, advq) ==
    IF Len(advq) > 0 THEN "continue" ELSE "proceed"

\* _should_continue_iteration
ShouldContinueIteration(it, maxit, advq) ==
    IF it >= maxit THEN "proceed"
    ELSE IF Len(advq) > 0 THEN "continue"
    ELSE "proceed"

\* Faulty variant of SaveCheckpoint: the identifier does not carry the
\* iteration of the state that is saved.
SaveCheckpointDropsIteration(phase) ==
    checkpoints' = IF enable_checkpoints /\ store_writable
                   THEN checkpoints \cup {<<phase, 0>>}
                   ELSE checkpoints

\* _save_checkpoint: best effort; a failed write is logged and ignored.
\* With checkpoints disabled nothing is written; a write to a directory
\* that does not accept writes raises inside save_checkpoint and is ignored.
SaveCheckpoint(phase) ==
    checkpoints' = IF enable_checkpoints /\ store_writable
                   THEN checkpoints \cup {<<phase, iteration>>}
                   ELSE checkpoints

Init ==
    /\ pc = "scout"
    /\ iteration = 0
    /\ max_iterations \in 1..MaxIterations
    /\ sources = <<>>
    /\ knowledge_graph = EmptyGraph
    /\ adversarial_queries = <<>>
    /\ executed_queries = {}
    /\ synthesis_report = "none"
    /\ current_phase = "initialized"
    /\ status_message = <<"workflow", "initialized">>
    /\ min_sources = MinSources
    /\ enable_checkpoints \in BOOLEAN
    /\ checkpoints = {}
    /\ store_writable \in BOOLEAN
    /\ queries = <<>>
    /\ new_sources = <<>>
    /\ existing_domains = {}
    /\ issued = [q \in AllQueries |-> 0]
    /\ loopbacks = 0
    /\ runs = [p \in Phases |-> 0]
    /\ pre = Snapshot
    /\ last = [phase |-> "none", outcome |-> "none"]
    /\ topic = [c \in Calls |-> <<Ord.a>>]
    /\ state = [c \in Calls |-> Initialize(topic[c])]
    /\ at = [c \in Calls |-> "scout"]
    /\ store = EmptyStore
    /\ result = [c \in Calls |-> NoResult]
    /\ written = [c \in Calls |-> <<>>]
    /\ selected = [c \in Calls |-> <<>>]
    /\ graph = EmptyKnowledgeGraph
    /\ incoming = [built |-> FALSE, graph |-> EmptyKnowledgeGraph]
    /\ UtilIdle
    /\ SessionsIdle


(***************************************************************************)
(* Bookkeeping shared by the nodes: which phase ran, with which data it    *)
(* started and how it ended ("ok", "skipped", "failed" inside the agent,   *)
(* "raised" out of the agent into the node's except block).                *)
(***************************************************************************)
Record(phase, outcome) ==
    /\ runs' = [runs EXCEPT ![phase] = @ + 1]
    /\ pre' = Snapshot
    /\ last' = [phase |-> phase, outcome |-> outcome]

(***************************************************************************)
(* Gathering: _scout_node and ScoutAgent.execute.                          *)
(***************************************************************************)

\* The result loop of collect_sources: a result whose domain is already
\* held is skipped, at most max_sources documents are collected.
\* Faulty variant of CollectSources: the domain of a result is not looked
\* up in the domains already held.
CollectSourcesUnfiltered(results, existing, max_sources) ==
    SubSeq(results, 1,
           IF Len(results) < max_sources THEN Len(results) ELSE max_sources)

RECURSIVE CollectSources(_, _, _)
CollectSources(results, existing, max_sources) ==
    IF results = <<>> \/ max_sources = 0 THEN <<>>
    ELSE IF Head(results) \in existing
         THEN CollectSources(Tail(results), existing, max_sources)
         ELSE <<Head(results)>> \o
              CollectSources(Tail(results), existing \cup {Head(results)},
                             max_sources - 1)

\* _scout_node up to the query loop of ScoutAgent.execute.
ScoutEnter ==
    /\ pc = "scout"
    /\ current_phase' = "scout"
    /\ existing_domains' = Range(sources)
    /\ queries' = IF iteration = 0
                  THEN InitialQueries
                  ELSE FilterExecuted(adversarial_queries, executed_queries)
    /\ new_sources' = <<>>
    /\ pc' = "scout_loop"
    /\ runs' = [runs EXCEPT !["scout"] = @ + 1]
    /\ pre' = Snapshot
    /\ last' = [phase |-> "scout", outcome |-> "running"]
    /\ UNCHANGED configVars
    /\ UNCHANGED <<iteration, max_iterations, sources, knowledge_graph,
                   adversarial_queries, executed_queries, synthesis_report,
                   status_message, checkpoints, issued, loopbacks>>

\* Faulty variant of ScoutLoopContinues: the loop runs every query.
ScoutLoopRunsAllQueries ==
    /\ pc = "scout_loop"
    /\ queries # <<>>

\* The loop runs another query while the documents held are fewer than
\* min_sources.
ScoutLoopContinues ==
    /\ pc = "scout_loop"
    /\ queries # <<>>
    /\ Len(sources) + Len(new_sources) < min_sources

\* One pass of the loop: search, collect, mark the query as executed.  A
\* failed search (SearchAPIError) is an empty result list.
ScoutCollect ==
    /\ ScoutLoopContinues
    /\ \E results \in SeqsUpTo(Domains, 0, MaxResults) :
         LET q == Head(queries)
             found == CollectSources(results, existing_domains,
                                     MaxSourcesPerQuery)
         IN /\ issued' = [issued EXCEPT ![q] = @ + 1]
            /\ new_sources' = new_sources \o found
            /\ existing_domains' = existing_domains \cup Range(found)
            /\ executed_queries' = executed_queries \cup {q}
            /\ queries' = Tail(queries)
    /\ UNCHANGED configVars
    /\ UNCHANGED <<pc, iteration, max_iterations, sources, knowledge_graph,
                   adversarial_queries, synthesis_report, current_phase,
                   status_message, checkpoints, loopbacks, runs, pre, last>>

\* Faulty variant of ScoutRaises: the documents collected before the
\* exception are added to the state.
ScoutRaisesKeepsPartial ==
    /\ ScoutLoopContinues
    /\ issued' = [issued EXCEPT ![Head(queries)] = @ + 1]
    /\ sources' = sources \o new_sources
    /\ status_message' = IF sources = <<>>
                         THEN <<"scout", "failed">>
                         ELSE status_message
    /\ queries' = <<>>
    /\ new_sources' = <<>>
    /\ existing_domains' = {}
    /\ pc' = Edge("scout")
    /\ last' = [phase |-> "scout", outcome |-> "raised"]
    /\ UNCHANGED configVars
    /\ UNCHANGED <<iteration, max_iterations, knowledge_graph,
                   adversarial_queries, executed_queries, synthesis_report,
                   current_phase, checkpoints, loopbacks, runs, pre>>

\* Faulty variant of ScoutRaises: a failure of the first gathering phase
\* with an empty checkpoint store is raised again and ends execute.
ScoutRaisesAgain ==
    /\ ScoutLoopContinues
    /\ issued' = [issued EXCEPT ![Head(queries)] = @ + 1]
    /\ status_message' = IF sources = <<>>
                         THEN <<"scout", "failed">>
                         ELSE status_message
    /\ queries' = <<>>
    /\ new_sources' = <<>>
    /\ existing_domains' = {}
    /\ pc' = IF iteration = 0 /\ checkpoints = {}
             THEN "raised" ELSE Edge("scout")
    /\ last' = [phase |-> "scout", outcome |-> "raised"]
    /\ UNCHANGED configVars
    /\ UNCHANGED <<iteration, max_iterations, sources, knowledge_graph,
                   adversarial_queries, executed_queries, synthesis_report,
                   current_phase, checkpoints, loopbacks, runs, pre>>

\* collect_sources raises something other than SearchAPIError: the exception
\* leaves ScoutAgent.execute and is handled by _scout_node.
ScoutRaises ==
    /\ ScoutLoopContinues
    /\ issued' = [issued EXCEPT ![Head(queries)] = @ + 1]
    /\ status_message' = IF sources = <<>>
                         THEN <<"scout", "failed">>
                         ELSE status_message
    /\ queries' = <<>>
    /\ new_sources' = <<>>
    /\ existing_domains' = {}
    /\ pc' = Edge("scout")
    /\ last' = [phase |-> "scout", outcome |-> "raised"]
    /\ UNCHANGED configVars
    /\ UNCHANGED <<iteration, max_iterations, sources, knowledge_graph,
                   adversarial_queries, executed_queries, synthesis_report,
                   current_phase, checkpoints, loopbacks, runs, pre>>

\* The loop has ended: the new documents are added, the status is set and
\* _scout_node writes the checkpoint.
ScoutFinish ==
    /\ pc = "scout_loop"
    /\ ~ScoutLoopContinues
    /\ sources' = sources \o new_sources
    /\ status_message' = <<"scout", "completed">>
    /\ SaveCheckpoint("scout")
    /\ queries' = <<>>
    /\ new_sources' = <<>>
    /\ existing_domains' = {}
    /\ pc' = Edge("scout")
    /\ last' = [phase |-> "scout", outcome |-> "ok"]
    /\ UNCHANGED configVars
    /\ UNCHANGED <<iteration, max_iterations, knowledge_graph,
                   adversarial_queries, executed_queries, synthesis_report,
                   current_phase, issued, loopbacks, runs, pre>>

(***************************************************************************)
(* Extracting: _mapper_node and MapperAgent.execute.                       *)
(*                                                                         *)
(* In the mapper, adversary, judge and synthesis agents the test for the   *)
(* required input and its early return come before any call that can      *)
(* fail, so an agent fails, inside its own try block or out into the node, *)
(* only when its input is present.                                         *)
(***************************************************************************)
MapperSkipped ==
    /\ pc = "mapper"
    /\ sources = <<>>
    /\ current_phase' = "mapper"
    /\ status_message' = <<"mapper", "skipped">>
    /\ SaveCheckpoint("mapper")
    /\ pc' = Edge("mapper")
    /\ Record("mapper", "skipped")
    /\ UNCHANGED configVars
    /\ UNCHANGED <<iteration, max_iterations, sources, knowledge_graph,
                   adversarial_queries, executed_queries, synthesis_report,
                   queries, new_sources, existing_domains, issued,
                   loopbacks>>

\* The graph built from the documents replaces the state's graph in the
\* first iteration and is merged into it afterwards.
MapperCompleted ==
    /\ pc = "mapper"
    /\ sources # <<>>
    /\ \E n \in 0..MaxNewRels :
         knowledge_graph' =
            IF iteration > 0
            THEN [relationships |-> knowledge_graph.relationships + n,
                  annotated |-> knowledge_graph.annotated]
            ELSE [relationships |-> n, annotated |-> FALSE]
    /\ current_phase' = "mapper"
    /\ status_message' = <<"mapper", "completed">>
    /\ SaveCheckpoint("mapper")
    /\ pc' = Edge("mapper")
    /\ Record("mapper", "ok")
    /\ UNCHANGED configVars
    /\ UNCHANGED <<iteration, max_iterations, sources, adversarial_queries,
                   executed_queries, synthesis_report, queries, new_sources,
                   existing_domains, issued, loopbacks>>

\* Graph building fails inside MapperAgent.execute, which catches it.
MapperFailed ==
    /\ pc = "mapper"
    /\ sources # <<>>
    /\ current_phase' = "mapper"
    /\ status_message' = <<"mapper", "failed">>
    /\ SaveCheckpoint("mapper")
    /\ pc' = Edge("mapper")
    /\ Record("mapper", "failed")
    /\ UNCHANGED configVars
    /\ UNCHANGED <<iteration, max_iterations, sources, knowledge_graph,
                   adversarial_queries, executed_queries, synthesis_report,
                   queries, new_sources, existing_domains, issued,
                   loopbacks>>

\* Faulty variant of MapperRaises: the except block does not set the status.
MapperRaisesSilently ==
    /\ pc = "mapper"
    /\ sources # <<>>
    /\ current_phase' = "mapper"
    /\ pc' = Edge("mapper")
    /\ Record("mapper", "raised")
    /\ UNCHANGED configVars
    /\ UNCHANGED <<iteration, max_iterations, sources, knowledge_graph,
                   adversarial_queries, executed_queries, synthesis_report,
                   status_message, checkpoints, queries, new_sources,
                   existing_domains, issued, loopbacks>>

\* The agent raises into _mapper_node.
MapperRaises ==
    /\ pc = "mapper"
    /\ sources # <<>>
    /\ current_phase' = "mapper"
    /\ status_message' = <<"mapper", "failed">>
    /\ pc' = Edge("mapper")
    /\ Record("mapper", "raised")
    /\ UNCHANGED configVars
    /\ UNCHANGED <<iteration, max_iterations, sources, knowledge_graph,
                   adversarial_queries, executed_queries, synthesis_report,
                   checkpoints, queries, new_sources, existing_domains,
                   issued, loopbacks>>


(***************************************************************************)
(* Challenging: _adversary_node and AdversaryAgent.execute.  The node      *)
(* writes the checkpoint before it increments the iteration counter.       *)
(***************************************************************************)
\* Faulty variant of AdversarySkipped: the node returns before the counter
\* is incremented.
AdversarySkippedKeepsIteration ==
    /\ pc = "adversary"
    /\ NoGraph(knowledge_graph)
    /\ current_phase' = "adversary"
    /\ adversarial_queries' = <<>>
    /\ status_message' = <<"adversary", "skipped">>
    /\ SaveCheckpoint("adversary")
    /\ pc' = Edge("adversary")
    /\ Record("adversary", "skipped")
    /\ UNCHANGED configVars
    /\ UNCHANGED <<iteration, max_iterations, sources, knowledge_graph,
                   executed_queries, synthesis_report, queries, new_sources,
                   existing_domains, issued, loopbacks>>

AdversarySkipped ==
    /\ pc = "adversary"
    /\ NoGraph(knowledge_graph)
    /\ current_phase' = "adversary"
    /\ adversarial_queries' = <<>>
    /\ status_message' = <<"adversary", "skipped">>
    /\ SaveCheckpoint("adversary")
    /\ iteration' = iteration + 1
    /\ pc' = Edge("adversary")
    /\ Record("adversary", "skipped")
    /\ UNCHANGED configVars
    /\ UNCHANGED <<max_iterations, sources, knowledge_graph,
                   executed_queries, synthesis_report, queries, new_sources,
                   existing_domains, issued, loopbacks>>

\* Either no weakness is found, or the generated counter-queries are
\* filtered against the executed queries.
AdversaryCompleted ==
    /\ pc = "adversary"
    /\ ~NoGraph(knowledge_graph)
    /\ \/ adversarial_queries' = <<>>
       \/ \E counter_queries \in SeqsUpTo(GeneratedQueries, MinCounterQueries,
                                          MaxCounterQueries) :
            adversarial_queries' =
                FilterExecuted(counter_queries, executed_queries)
    /\ current_phase' = "adversary"
    /\ status_message' = <<"adversary", "completed">>
    /\ SaveCheckpoint("adversary")
    /\ iteration' = iteration + 1
    /\ pc' = Edge("adversary")
    /\ Record("adversary", "ok")
    /\ UNCHANGED configVars
    /\ UNCHANGED <<max_iterations, sources, knowledge_graph,
                   executed_queries, synthesis_report, queries, new_sources,
                   existing_domains, issued, loopbacks>>

\* Faulty variant of AdversaryFailed: the follow-up queries of the state
\* are left as they were.
AdversaryFailedKeepsQueries ==
    /\ pc = "adversary"
    /\ ~NoGraph(knowledge_graph)
    /\ current_phase' = "adversary"
    /\ status_message' = <<"adversary", "failed">>
    /\ SaveCheckpoint("adversary")
    /\ iteration' = iteration + 1
    /\ pc' = Edge("adversary")
    /\ Record("adversary", "failed")
    /\ UNCHANGED configVars
    /\ UNCHANGED <<max_iterations, sources, knowledge_graph,
                   adversarial_queries, executed_queries, synthesis_report,
                   queries, new_sources, existing_domains, issued,
                   loopbacks>>

\* Weakness analysis or query generation fails inside the agent.
AdversaryFailed ==
    /\ pc = "adversary"
    /\ ~NoGraph(knowledge_graph)
    /\ current_phase' = "adversary"
    /\ adversarial_queries' = <<>>
    /\ status_message' = <<"adversary", "failed">>
    /\ SaveCheckpoint("adversary")
    /\ iteration' = iteration + 1
    /\ pc' = Edge("adversary")
    /\ Record("adversary", "failed")
    /\ UNCHANGED configVars
    /\ UNCHANGED <<max_iterations, sources, knowledge_graph,
                   executed_queries, synthesis_report, queries, new_sources,
                   existing_domains, issued, loopbacks>>

\* Faulty variant of AdversaryRaises: the counter is incremented inside the
\* try block, so a raising agent leaves it as it was.
AdversaryRaisesNoIncrement ==
    /\ pc = "adversary"
    /\ ~NoGraph(knowledge_graph)
    /\ current_phase' = "adversary"
    /\ adversarial_queries' = <<>>
    /\ status_message' = <<"adversary", "failed">>
    /\ pc' = Edge("adversary")
    /\ Record("adversary", "raised")
    /\ UNCHANGED configVars
    /\ UNCHANGED <<iteration, max_iterations, sources, knowledge_graph,
                   executed_queries, synthesis_report, checkpoints, queries,
                   new_sources, existing_domains, issued, loopbacks>>

\* The agent raises into _adversary_node.
AdversaryRaises ==
    /\ pc = "adversary"
    /\ ~NoGraph(knowledge_graph)
    /\ current_phase' = "adversary"
    /\ adversarial_queries' = <<>>
    /\ status_message' = <<"adversary", "failed">>
    /\ iteration' = iteration + 1
    /\ pc' = Edge("adversary")
    /\ Record("adversary", "raised")
    /\ UNCHANGED configVars
    /\ UNCHANGED <<max_iterations, sources, knowledge_graph,
                   executed_queries, synthesis_report, checkpoints, queries,
                   new_sources, existing_domains, issued, loopbacks>>

(***************************************************************************)
(* The conditional edge after the challenging phase.                       *)
(***************************************************************************)
Decide ==
    /\ pc = "decide"
    /\ LET decision == ShouldContinueIteration(iteration, max_iterations,
                                               adversarial_queries)
       IN /\ pc' = ConditionalEdge(decision)
          /\ loopbacks' = IF decision = "continue"
                          THEN loopbacks + 1 ELSE loopbacks
          /\ last' = [phase |-> "decide", outcome |-> decision]
    /\ UNCHANGED configVars
    /\ UNCHANGED <<iteration, max_iterations, sources, knowledge_graph,
                   adversarial_queries, executed_queries, synthesis_report,
                   current_phase, status_message, checkpoints, queries,
                   new_sources, existing_domains, issued, runs, pre>>

(***************************************************************************)
(* Scoring: _judge_node and JudgeAgent.execute.                            *)
(***************************************************************************)
\* Faulty variant of JudgeSkipped: the scoring phase leaves a report.
JudgeSkippedWritesReport ==
    /\ pc = "judge"
    /\ sources = <<>> \/ NoGraph(knowledge_graph)
    /\ synthesis_report' = "report"
    /\ current_phase' = "judge"
    /\ status_message' = <<"judge", "skipped">>
    /\ SaveCheckpoint("judge")
    /\ pc' = Edge("judge")
    /\ Record("judge", "skipped")
    /\ UNCHANGED configVars
    /\ UNCHANGED <<iteration, max_iterations, sources, knowledge_graph,
                   adversarial_queries, executed_queries, queries,
                   new_sources, existing_domains, issued, loopbacks>>

JudgeSkipped ==
    /\ pc = "judge"
    /\ sources = <<>> \/ NoGraph(knowledge_graph)
    /\ current_phase' = "judge"
    /\ status_message' = <<"judge", "skipped">>
    /\ SaveCheckpoint("judge")
    /\ pc' = Edge("judge")
    /\ Record("judge", "skipped")
    /\ UNCHANGED configVars
    /\ UNCHANGED <<iteration, max_iterations, sources, knowledge_graph,
                   adversarial_queries, executed_queries, synthesis_report,
                   queries, new_sources, existing_domains, issued,
                   loopbacks>>

\* Faulty variant of JudgeCompleted: _save_checkpoint lets the exception of a
\* failed write out, so the except block of _judge_node reports a failed
\* phase.
JudgeCompletedSaveRaises ==
    /\ pc = "judge"
    /\ sources # <<>> /\ ~NoGraph(knowledge_graph)
    /\ knowledge_graph' = [knowledge_graph EXCEPT !.annotated = TRUE]
    /\ current_phase' = "judge"
    /\ status_message' = IF enable_checkpoints /\ ~store_writable
                         THEN <<"judge", "failed">>
                         ELSE <<"judge", "completed">>
    /\ SaveCheckpoint("judge")
    /\ pc' = Edge("judge")
    /\ Record("judge", "ok")
    /\ UNCHANGED configVars
    /\ UNCHANGED <<iteration, max_iterations, sources, adversarial_queries,
                   executed_queries, synthesis_report, queries, new_sources,
                   existing_domains, issued, loopbacks>>

JudgeCompleted ==
    /\ pc = "judge"
    /\ sources # <<>> /\ ~NoGraph(knowledge_graph)
    /\ knowledge_graph' = [knowledge_graph EXCEPT !.annotated = TRUE]
    /\ current_phase' = "judge"
    /\ status_message' = <<"judge", "completed">>
    /\ SaveCheckpoint("judge")
    /\ pc' = Edge("judge")
    /\ Record("judge", "ok")
    /\ UNCHANGED configVars
    /\ UNCHANGED <<iteration, max_iterations, sources, adversarial_queries,
                   executed_queries, synthesis_report, queries, new_sources,
                   existing_domains, issued, loopbacks>>

JudgeFailed ==
    /\ pc = "judge"
    /\ sources # <<>> /\ ~NoGraph(knowledge_graph)
    /\ current_phase' = "judge"
    /\ status_message' = <<"judge", "failed">>
    /\ SaveCheckpoint("judge")
    /\ pc' = Edge("judge")
    /\ Record("judge", "failed")
    /\ UNCHANGED configVars
    /\ UNCHANGED <<iteration, max_iterations, sources, knowledge_graph,
                   adversarial_queries, executed_queries, synthesis_report,
                   queries, new_sources, existing_domains, issued,
                   loopbacks>>

JudgeRaises ==
    /\ pc = "judge"
    /\ sources # <<>> /\ ~NoGraph(knowledge_graph)
    /\ current_phase' = "judge"
    /\ status_message' = <<"judge", "failed">>
    /\ pc' = Edge("judge")
    /\ Record("judge", "raised")
    /\ UNCHANGED configVars
    /\ UNCHANGED <<iteration, max_iterations, sources, knowledge_graph,
                   adversarial_queries, executed_queries, synthesis_report,
                   checkpoints, queries, new_sources, existing_domains,
                   issued, loopbacks>>

(***************************************************************************)
(* Synthesizing: _synthesis_node and SynthesisAgent.execute.               *)
(***************************************************************************)
\* Faulty variant of SynthesisSkipped: a report is stored although the phase
\* is skipped.
SynthesisSkippedWritesReport ==
    /\ pc = "synthesis"
    /\ NoGraph(knowledge_graph)
    /\ synthesis_report' = "report"
    /\ current_phase' = "synthesis"
    /\ status_message' = <<"synthesis", "skipped">>
    /\ SaveCheckpoint("synthesis")
    /\ pc' = Edge("synthesis")
    /\ Record("synthesis", "skipped")
    /\ UNCHANGED configVars
    /\ UNCHANGED <<iteration, max_iterations, sources, knowledge_graph,
                   adversarial_queries, executed_queries, queries,
                   new_sources, existing_domains, issued, loopbacks>>

SynthesisSkipped ==
    /\ pc = "synthesis"
    /\ NoGraph(knowledge_graph)
    /\ current_phase' = "synthesis"
    /\ status_message' = <<"synthesis", "skipped">>
    /\ SaveCheckpoint("synthesis")
    /\ pc' = Edge("synthesis")
    /\ Record("synthesis", "skipped")
    /\ UNCHANGED configVars
    /\ UNCHANGED <<iteration, max_iterations, sources, knowledge_graph,
                   adversarial_queries, executed_queries, synthesis_report,
                   queries, new_sources, existing_domains, issued,
                   loopbacks>>

SynthesisCompleted ==
    /\ pc = "synthesis"
    /\ ~NoGraph(knowledge_graph)
    /\ synthesis_report' = "report"
    /\ current_phase' = "synthesis"
    /\ status_message' = <<"synthesis", "completed">>
    /\ SaveCheckpoint("synthesis")
    /\ pc' = Edge("synthesis")
    /\ Record("synthesis", "ok")
    /\ UNCHANGED configVars
    /\ UNCHANGED <<iteration, max_iterations, sources, knowledge_graph,
                   adversarial_queries, executed_queries, queries,
                   new_sources, existing_domains, issued, loopbacks>>

SynthesisFailed ==
    /\ pc = "synthesis"
    /\ ~NoGraph(knowledge_graph)
    /\ current_phase' = "synthesis"
    /\ status_message' = <<"synthesis", "failed">>
    /\ SaveCheckpoint("synthesis")
    /\ pc' = Edge("synthesis")
    /\ Record("synthesis", "failed")
    /\ UNCHANGED configVars
    /\ UNCHANGED <<iteration, max_iterations, sources, knowledge_graph,
                   adversarial_queries, executed_queries, synthesis_report,
                   queries, new_sources, existing_domains, issued,
                   loopbacks>>

SynthesisRaises ==
    /\ pc = "synthesis"
    /\ ~NoGraph(knowledge_graph)
    /\ current_phase' = "synthesis"
    /\ status_message' = <<"synthesis", "failed">>
    /\ pc' = Edge("synthesis")
    /\ Record("synthesis", "raised")
    /\ UNCHANGED configVars
    /\ UNCHANGED <<iteration, max_iterations, sources, knowledge_graph,
                   adversarial_queries, executed_queries, synthesis_report,
                   checkpoints, queries, new_sources, existing_domains,
                   issued, loopbacks>>

(***************************************************************************)
(* The run.                                                                *)
(***************************************************************************)
Next ==
    \/ ScoutEnter
    \/ ScoutCollect
    \/ ScoutRaises
    \/ ScoutFinish
    \/ MapperSkipped
    \/ MapperCompleted
    \/ MapperFailed
    \/ MapperRaises
    \/ AdversarySkipped
    \/ AdversaryCompleted
    \/ AdversaryFailed
    \/ AdversaryRaises
    \/ Decide
    \/ JudgeSkipped
    \/ JudgeCompleted
    \/ JudgeFailed
    \/ JudgeRaises
    \/ SynthesisSkipped
    \/ SynthesisCompleted
    \/ SynthesisFailed
    \/ SynthesisRaises

Spec == Init /\ [][Next]_vars

\* The graph runtime runs the next node whenever there is one.
FairSpec == Spec /\ WF_vars(Next)

TypeOK ==
    /\ pc \in {"scout", "scout_loop", "mapper", "adversary", "decide",
               "judge", "synthesis", "done", "raised"}
    /\ iteration \in Nat
    /\ max_iterations \in 1..MaxIterations
    /\ sources \in Seq(Domains)
    /\ knowledge_graph.relationships \in Nat
    /\ knowledge_graph.annotated \in BOOLEAN
    /\ adversarial_queries \in Seq(AllQueries)
    /\ executed_queries \subseteq AllQueries
    /\ synthesis_report \in {"none", "report"}
    /\ current_phase \in Phases \cup {"initialized"}
    /\ checkpoints \subseteq (Phases \X Nat)
    /\ loopbacks \in Nat


(***************************************************************************)
(* Properties of the iteration controller.                                 *)
(***************************************************************************)

\* C1: the loop decision depends only on the iteration counter, the
\* iteration limit and the number of follow-up queries: at or past the limit
\* the run proceeds to scoring; below it the run goes back to gathering
\* exactly when there is a follow-up query; the decision changes no field of
\* the workflow state and nothing in the checkpoint store.
C1_DecisionRule ==
    [][pc = "decide" =>
          /\ pc' = IF iteration >= max_iterations THEN "judge"
                   ELSE IF Len(adversarial_queries) >= 1 THEN "scout"
                   ELSE "judge"
          /\ UNCHANGED <<stateVars, checkpoints>>]_vars

\* A run that went back once and then proceeded at the limit although
\* follow-up queries were pending.
C1_Witness ==
    /\ pc = "judge"
    /\ last = [phase |-> "decide", outcome |-> "proceed"]
    /\ loopbacks >= 1
    /\ adversarial_queries # <<>>
    /\ iteration >= max_iterations

\* C2: a run with max_iterations = N goes back from challenging to gathering
\* at most N times and runs each phase of the cycle at most N times.
C2_LoopBacksBounded ==
    /\ loopbacks <= max_iterations
    /\ runs["scout"] <= max_iterations
    /\ runs["mapper"] <= max_iterations
    /\ runs["adversary"] <= max_iterations

\* A finished run that used every cycle it was allowed.
C2_Witness ==
    /\ pc = "done"
    /\ max_iterations >= 2
    /\ runs["adversary"] = max_iterations
    /\ loopbacks = max_iterations - 1

\* How the status message reports the way a phase ended.
StatusKind(outcome) ==
    CASE outcome = "ok" -> "completed"
      [] outcome = "skipped" -> "skipped"
      [] outcome \in {"failed", "raised"} -> "failed"

\* C3: every run ends: it reaches done through the synthesizing phase, and
\* the way synthesis ended (completed, skipped or failed) is carried by the
\* status message of the final state; a failing synthesis is not raised.
C3_RunTerminates ==
    <>(/\ pc = "done"
       /\ current_phase = "synthesis"
       /\ last.phase = "synthesis"
       /\ status_message = <<"synthesis", StatusKind(last.outcome)>>)

\* A run that is done although its synthesis agent raised.
C3_Witness ==
    /\ pc = "done"
    /\ last = [phase |-> "synthesis", outcome |-> "raised"]
    /\ status_message = <<"synthesis", "failed">>

\* The transitions between positions that the phase order allows.
AllowedTransitions ==
    {<<"scout", "scout_loop">>, <<"scout_loop", "mapper">>,
     <<"mapper", "adversary">>, <<"adversary", "decide">>,
     <<"decide", "scout">>, <<"decide", "judge">>,
     <<"judge", "synthesis">>, <<"synthesis", "done">>}

\* C4: a run starts in gathering; its phases follow the order gathering,
\* extracting, challenging, then gathering again or scoring, synthesizing,
\* done; once scoring has started no phase of the cycle runs again; scoring
\* and synthesizing have each run exactly once when the run is done; nothing
\* runs after done.
C4_PhaseOrder ==
    /\ pc = "scout"
    /\ [][/\ pc # "done"
          /\ pc' # pc => <<pc, pc'>> \in AllowedTransitions
          /\ pc' = pc => pc = "scout_loop"
          /\ runs["judge"] >= 1 => pc' \in {"synthesis", "done"}
          /\ runs'["judge"] <= 1
          /\ runs'["synthesis"] <= 1
          /\ pc' = "done" => runs'["judge"] = 1 /\ runs'["synthesis"] = 1
         ]_vars

\* A finished run that went back to gathering before scoring.
C4_Witness ==
    /\ pc = "done"
    /\ loopbacks >= 1
    /\ runs["scout"] = 2
    /\ runs["judge"] = 1
    /\ runs["synthesis"] = 1

\* C5: every execution of the challenging phase adds exactly one to the
\* iteration counter, however the adversary agent ends; no other step
\* changes the counter.
C5_IterationCounter ==
    [][/\ pc = "adversary" => iteration' = iteration + 1
       /\ pc # "adversary" => iteration' = iteration]_vars

\* The adversary agent raised in the second cycle and the counter is 2.
C5_Witness ==
    /\ last = [phase |-> "adversary", outcome |-> "raised"]
    /\ runs["adversary"] = 2
    /\ iteration = 2


(***************************************************************************)
(* Properties of query handling and of failure handling.                   *)
(***************************************************************************)

\* C6: within one run no query string is handed to the search function more
\* than once.
C6_NoQueryReissued ==
    \A q \in AllQueries : issued[q] <= 1

\* C7 as stated: after a phase whose agent raised, every data field
\* (documents, graph, follow-up queries, executed queries, report) has the
\* value it had when the phase started.
C7_DataUnchangedAfterRaise ==
    last.outcome = "raised" => Data = pre.data

\* C7: after a phase whose agent raised, the documents, the graph and the
\* report have the values they had when the phase started; the follow-up
\* queries are unchanged except that a raising challenging phase empties
\* them; the executed queries are unchanged except that a raising gathering
\* phase keeps the queries it ran before the exception.
C7_DataAfterRaise ==
    last.outcome = "raised" =>
        /\ sources = pre.data.sources
        /\ knowledge_graph = pre.data.knowledge_graph
        /\ synthesis_report = pre.data.synthesis_report
        /\ adversarial_queries =
              IF last.phase = "adversary"
              THEN <<>> ELSE pre.data.adversarial_queries
        /\ IF last.phase = "scout"
           THEN pre.data.executed_queries \subseteq executed_queries
           ELSE executed_queries = pre.data.executed_queries

\* The adversary agent raised while follow-up queries were pending.
C7_Witness ==
    /\ last = [phase |-> "adversary", outcome |-> "raised"]
    /\ pre.data.adversarial_queries # <<>>
    /\ pc = "decide"

\* C8 as stated: when an agent raises while documents are held, the status
\* message reports the failure of that phase and the run is at the next
\* phase.
C8_FailureAnnotated ==
    (last.outcome = "raised" /\ sources # <<>>) =>
        /\ status_message = <<last.phase, "failed">>
        /\ pc = Edge(last.phase)

\* C8: when an agent raises while documents are held, the run is at the
\* next phase; the status message reports the failure of an extracting,
\* challenging, scoring or synthesizing phase, and is left as it was by a
\* failing gathering phase.
C8_FailureHandled ==
    (last.outcome = "raised" /\ sources # <<>>) =>
        /\ pc = Edge(last.phase)
        /\ status_message = IF last.phase = "scout"
                            THEN pre.status
                            ELSE <<last.phase, "failed">>

\* A gathering phase raised while documents were held: the run is at the
\* extracting phase and the status message is still the one of the last
\* challenging phase.
C8_Witness ==
    /\ last = [phase |-> "scout", outcome |-> "raised"]
    /\ sources # <<>>
    /\ pc = "mapper"
    /\ status_message[1] = "adversary"

\* C9 as stated: a raising agent ends execute with the exception exactly
\* when it is the gathering agent of the first iteration and no checkpoint
\* exists.
C9_RaisedOnlyAtFirstPhase ==
    last.outcome = "raised" =>
        (pc = "raised" <=>
            (last.phase = "scout" /\ iteration = 0 /\ checkpoints = {}))

\* C9: an exception of an agent never ends execute: the run is at the next
\* phase, also when the gathering agent of the first iteration raises and
\* no checkpoint exists; the status message then reports the failed
\* gathering phase.
C9_NeverRaised ==
    last.outcome = "raised" =>
        /\ pc = Edge(last.phase)
        /\ (last.phase = "scout" /\ iteration = 0) =>
               status_message = <<"scout", "failed">>

\* The gathering agent raised in the first iteration with no checkpoint
\* written, and the run is at the extracting phase.
C9_Witness ==
    /\ last = [phase |-> "scout", outcome |-> "raised"]
    /\ iteration = 0
    /\ checkpoints = {}
    /\ enable_checkpoints
    /\ pc = "mapper"

\* The input a phase requires is absent.
InputAbsent(phase, data) ==
    CASE phase = "mapper" -> data.sources = <<>>
      [] phase \in {"adversary", "judge", "synthesis"} ->
            NoGraph(data.knowledge_graph)
      [] OTHER -> FALSE

\* C10: a phase that starts without its required input (extracting without
\* documents; challenging, scoring or synthesizing without relationships)
\* ends as skipped: its status message says so, the follow-up queries are
\* empty after a skipped challenging phase, no other data field changes,
\* and the run is at the next phase.
C10_SkippedIsNoOp ==
    /\ (last.phase \in Phases /\ last.outcome # "running"
          /\ InputAbsent(last.phase, pre.data)) => last.outcome = "skipped"
    /\ last.outcome = "skipped" =>
          /\ status_message = <<last.phase, "skipped">>
          /\ Data = [pre.data EXCEPT !.adversarial_queries =
                        IF last.phase = "adversary" THEN <<>> ELSE @]
          /\ pc = Edge(last.phase)

\* Documents are held but the graph has no relationship: the challenging
\* phase was skipped.
C10_Witness ==
    /\ last = [phase |-> "adversary", outcome |-> "skipped"]
    /\ sources # <<>>
    /\ adversarial_queries = <<>>
    /\ pc = "decide"

(***************************************************************************)
(* Properties of checkpointing inside a run.                               *)
(***************************************************************************)

\* A step that ends a phase: a node function returns.
PhaseEnds ==
    /\ last' # last
    /\ last'.phase \in Phases
    /\ last'.outcome # "running"

\* C11 as stated: with checkpointing enabled and the store writable, after
\* every executed phase, however it ended, a checkpoint of that phase and of
\* the iteration it ran in exists.
C11_CheckpointAfterEveryPhase ==
    (enable_checkpoints /\ store_writable /\ last.phase \in Phases
        /\ last.outcome # "running") =>
        <<last.phase,
          IF last.phase = "adversary" THEN iteration - 1 ELSE iteration>>
            \in checkpoints

\* C11: with checkpointing enabled and the store writable, the step that
\* ends a phase whose agent returned (completed, skipped, or failed inside
\* the agent) adds the checkpoint of that phase and of the iteration the
\* phase ran in, so it exists before the next phase starts; the step that
\* ends a phase whose agent raised writes no checkpoint.
C11_CheckpointAfterReturn ==
    [][(enable_checkpoints /\ store_writable /\ PhaseEnds) =>
          checkpoints' = IF last'.outcome = "raised"
                         THEN checkpoints
                         ELSE checkpoints \cup {<<last'.phase, iteration>>}
      ]_vars

\* The second challenging phase failed inside the agent and its checkpoint
\* carries the iteration the phase ran in.
C11_Witness ==
    /\ enable_checkpoints /\ store_writable
    /\ last = [phase |-> "adversary", outcome |-> "failed"]
    /\ iteration = 2
    /\ <<"adversary", 1>> \in checkpoints
    /\ pc = "decide"

\* C12: a failed checkpoint write is not fatal: the step that ends a phase
\* whose agent returned puts the run at the next phase, with the phase's own
\* status message and iteration count, whether the store accepts the write
\* or not; when it does not, the store is left as it was and the run still
\* goes on to done.
C12_SaveFailureNotFatal ==
    [][(PhaseEnds /\ last'.outcome # "raised") =>
          /\ pc' = Edge(last'.phase)
          /\ current_phase' = last'.phase
          /\ status_message' = <<last'.phase, StatusKind(last'.outcome)>>
          /\ iteration' = IF last'.phase = "adversary"
                          THEN iteration + 1 ELSE iteration
          /\ max_iterations' = max_iterations
          /\ (enable_checkpoints /\ ~store_writable) =>
                 checkpoints' = checkpoints
      ]_vars

\* A run in which every checkpoint write failed is done, with a scored graph
\* and a report.
C12_Witness ==
    /\ enable_checkpoints /\ ~store_writable
    /\ pc = "done"
    /\ checkpoints = {}
    /\ knowledge_graph.annotated
    /\ synthesis_report = "report"
    /\ status_message = <<"synthesis", "completed">>

(***************************************************************************)
(* Calls of execute on a shared checkpoint directory: checkpoint           *)
(* identifiers, the documents written, and the recovery code of execute.   *)
(*                                                                         *)
(* Of each WorkflowState the fields are kept that the identifier and the   *)
(* reloading of a checkpoint depend on; what the agents do with the other  *)
(* fields, and the node of an agent that raises (which writes nothing), is *)
(* the subject of Spec.  graph.invoke can raise between two nodes (an      *)
(* error of the graph runtime, or of a node outside its try block);        *)
(* execute then runs its recovery code.                                    *)
(***************************************************************************)

\* The variables of the single run of Spec, which rest here.
runVars == <<pc, iteration, sources, knowledge_graph, adversarial_queries,
             executed_queries, synthesis_report, current_phase,
             status_message, checkpoints, queries, new_sources,
             existing_domains, issued, loopbacks, runs, pre, last,
             graphVars, utilVars, sessionVars>>

\* json.dump(state.model_dump(), f, default=str): model_dump keeps
\* executed_queries as a set, which json cannot encode, so it is written
\* as the string str(set); lists, strings and numbers are written as such.
JsonDump(st) ==
    [topic |-> st.topic,
     iteration |-> st.iteration,
     knowledge_graph |-> st.knowledge_graph,
     executed_queries |-> [json |-> "string", text |-> st.executed_queries],
     current_phase |-> st.current_phase]

\* WorkflowState(**json.load(f)): the Set[str] field accepts a JSON array
\* and rejects a JSON string with a validation error, which load_checkpoint
\* turns into StateRecoveryError.
LoadCheckpoint(doc) ==
    IF doc.executed_queries.json = "array"
    THEN [ok |-> TRUE,
          state |-> [topic |-> doc.topic,
                     iteration |-> doc.iteration,
                     knowledge_graph |-> doc.knowledge_graph,
                     executed_queries |-> doc.executed_queries.text,
                     current_phase |-> doc.current_phase]]
    ELSE [ok |-> FALSE]

\* The file {id}.json is created or overwritten.
Put(dir, id, doc) ==
    [x \in DOMAIN dir \cup {id} |-> IF x = id THEN doc ELSE dir[x]]

\* What a returning agent does to the fields kept here.
AgentResult(phase, st) ==
    CASE phase = "scout" ->
            [st EXCEPT !.executed_queries =
                @ \cup {IF st.iteration = 0 THEN "t" ELSE "q1"}]
      [] phase = "mapper" ->
            [st EXCEPT !.knowledge_graph =
                [entities |-> <<"e1", "e2">>,
                 relationships |-> @.relationships \o
                    <<[source |-> "e1", target |-> "e2"]>>]]
      [] OTHER -> st

StoreInit ==
    /\ pc = "scout"
    /\ iteration = 0
    /\ max_iterations \in 1..MaxIterations
    /\ sources = <<>>
    /\ knowledge_graph = EmptyGraph
    /\ adversarial_queries = <<>>
    /\ executed_queries = {}
    /\ synthesis_report = "none"
    /\ current_phase = "initialized"
    /\ status_message = <<"workflow", "initialized">>
    /\ min_sources = MinSources
    /\ enable_checkpoints \in BOOLEAN
    /\ checkpoints = {}
    /\ store_writable \in BOOLEAN
    /\ queries = <<>>
    /\ new_sources = <<>>
    /\ existing_domains = {}
    /\ issued = [q \in AllQueries |-> 0]
    /\ loopbacks = 0
    /\ runs = [p \in Phases |-> 0]
    /\ pre = Snapshot
    /\ last = [phase |-> "none", outcome |-> "none"]
    /\ topic \in [Calls -> Topics]
    /\ state = [c \in Calls |-> Initialize(topic[c])]
    /\ at = [c \in Calls |-> "scout"]
    /\ store = EmptyStore
    /\ result = [c \in Calls |-> NoResult]
    /\ written = [c \in Calls |-> <<>>]
    /\ selected = [c \in Calls |-> <<>>]
    /\ graph = EmptyKnowledgeGraph
    /\ incoming = [built |-> FALSE, graph |-> EmptyKnowledgeGraph]
    /\ UtilIdle
    /\ SessionsIdle

\* A node whose agent returns: the state is checkpointed under the
\* identifier built from its topic, the phase and its iteration; the
\* challenging node then increments the iteration.
NodeReturns(c) ==
    /\ at[c] \in Phases
    /\ LET phase == at[c]
           after == [AgentResult(phase, state[c])
                        EXCEPT !.current_phase = phase]
           checkpoint_id == CheckpointId(after.topic, phase, after.iteration)
           saved == enable_checkpoints /\ store_writable
       IN /\ store' = IF saved
                       THEN Put(store, checkpoint_id, JsonDump(after))
                       ELSE store
          /\ written' = IF saved
                         THEN [written EXCEPT ![c] = Append(@, checkpoint_id)]
                         ELSE written
          /\ state' = [state EXCEPT ![c] =
                          IF phase = "adversary"
                          THEN [after EXCEPT !.iteration = @ + 1]
                          ELSE after]
          /\ at' = [at EXCEPT ![c] = Edge(phase)]
    /\ UNCHANGED <<topic, result, selected>>
    /\ UNCHANGED <<runVars, max_iterations, min_sources, enable_checkpoints,
                   store_writable>>

\* The conditional edge, for any list of follow-up queries.
NodeDecides(c) ==
    /\ at[c] = "decide"
    /\ \E advq \in {<<>>, <<"q1">>} :
         at' = [at EXCEPT ![c] =
                   ConditionalEdge(ShouldContinueIteration(
                       state[c].iteration, max_iterations, advq))]
    /\ UNCHANGED <<topic, state, store, result, written, selected>>
    /\ UNCHANGED <<runVars, max_iterations, min_sources, enable_checkpoints,
                   store_writable>>

\* graph.invoke returns the final state and execute returns it.
InvokeReturns(c) ==
    /\ at[c] = "done"
    /\ at' = [at EXCEPT ![c] = "returned"]
    /\ result' = [result EXCEPT ![c] =
                     [kind |-> "final", state |-> state[c]]]
    /\ UNCHANGED <<topic, state, store, written, selected>>
    /\ UNCHANGED <<runVars, max_iterations, min_sources, enable_checkpoints,
                   store_writable>>

\* graph.invoke raises.
InvokeRaises(c) ==
    /\ at[c] \in Phases \cup {"decide"}
    /\ at' = [at EXCEPT ![c] = "failed"]
    /\ UNCHANGED <<topic, state, store, result, written, selected>>
    /\ UNCHANGED <<runVars, max_iterations, min_sources, enable_checkpoints,
                   store_writable>>

\* The except block of execute: the identifiers that start with the prefix
\* built from the topic argument are listed, the last one in sorted order
\* is loaded and returned; without such an identifier, with checkpoints
\* disabled, or when loading fails, the exception is raised again.
ExecuteRecovers(c) ==
    /\ at[c] = "failed"
    /\ LET topic_prefix == TopicPrefix(topic[c])
           relevant_checkpoints ==
               {cp \in DOMAIN store : StartsWith(cp, topic_prefix)}
       IN IF enable_checkpoints /\ relevant_checkpoints # {}
          THEN LET latest_checkpoint == SortedLast(relevant_checkpoints)
                   loaded == LoadCheckpoint(store[latest_checkpoint])
               IN /\ selected' = [selected EXCEPT ![c] = latest_checkpoint]
                  /\ IF loaded.ok
                     THEN /\ at' = [at EXCEPT ![c] = "returned"]
                          /\ result' = [result EXCEPT ![c] =
                                 [kind |-> "recovered",
                                  state |-> loaded.state]]
                     ELSE /\ at' = [at EXCEPT ![c] = "raised"]
                          /\ result' = [result EXCEPT ![c] =
                                 [kind |-> "exception"]]
          ELSE /\ at' = [at EXCEPT ![c] = "raised"]
               /\ result' = [result EXCEPT ![c] = [kind |-> "exception"]]
               /\ UNCHANGED selected
    /\ UNCHANGED <<topic, state, store, written>>
    /\ UNCHANGED <<runVars, max_iterations, min_sources, enable_checkpoints,
                   store_writable>>

StoreNext ==
    \E c \in Calls :
        \/ NodeReturns(c)
        \/ NodeDecides(c)
        \/ InvokeReturns(c)
        \/ InvokeRaises(c)
        \/ ExecuteRecovers(c)

StoreSpec == StoreInit /\ [][StoreNext]_vars

StoreTypeOK ==
    /\ topic \in [Calls -> Topics]
    /\ \A c \in Calls :
          /\ at[c] \in Phases \cup {"decide", "done", "failed", "returned",
                                     "raised"}
          /\ state[c].topic = Strip(topic[c])
          /\ state[c].iteration \in 0..max_iterations
          /\ result[c].kind \in {"none", "final", "recovered", "exception"}
          /\ \A i \in 1..Len(written[c]) : written[c][i] \in DOMAIN store

(***************************************************************************)
(* A run with its knowledge graph kept in full.  Documents are held from   *)
(* the start (the first gathering phase has found one); the gathering,     *)
(* challenging and synthesizing phases leave the graph alone and are kept  *)
(* for the positions and the iteration count only.  A run has at most two  *)
(* extracting phases: the first builds the graph, the second merges into   *)
(* it.                                                                     *)
(***************************************************************************)

\* The variables that rest in this run.
graphRest == <<sources, knowledge_graph, executed_queries,
               synthesis_report, min_sources,
               enable_checkpoints, store_writable, checkpoints, queries,
               new_sources, existing_domains, issued, loopbacks, runs, pre,
               last, storeVars, utilVars, sessionVars>>

NoIncoming == [built |-> FALSE, graph |-> EmptyKnowledgeGraph]

GraphInit ==
    /\ pc = "mapper"
    /\ iteration = 0
    /\ max_iterations \in {1, 2}
    /\ sources = <<1>>
    /\ knowledge_graph = EmptyGraph
    /\ adversarial_queries = <<>>
    /\ executed_queries = {"t"}
    /\ synthesis_report = "none"
    /\ current_phase = "scout"
    /\ status_message = <<"scout", "completed">>
    /\ min_sources = MinSources
    /\ enable_checkpoints = FALSE
    /\ checkpoints = {}
    /\ store_writable = FALSE
    /\ queries = <<>>
    /\ new_sources = <<>>
    /\ existing_domains = {}
    /\ issued = [q \in AllQueries |-> 0]
    /\ loopbacks = 0
    /\ runs = [p \in Phases |-> 0]
    /\ pre = Snapshot
    /\ last = [phase |-> "none", outcome |-> "none"]
    /\ topic = [c \in Calls |-> <<Ord.a>>]
    /\ state = [c \in Calls |-> Initialize(topic[c])]
    /\ at = [c \in Calls |-> "scout"]
    /\ store = EmptyStore
    /\ result = [c \in Calls |-> NoResult]
    /\ written = [c \in Calls |-> <<>>]
    /\ selected = [c \in Calls |-> <<>>]
    /\ graph = EmptyKnowledgeGraph
    /\ incoming = NoIncoming
    /\ UtilIdle
    /\ SessionsIdle

\* Faulty variant of UpdatedGraph: the new graph replaces the existing one
\* in every iteration.
UpdatedGraphAlwaysReplaces(state_iteration, existing, new) ==
    [raised |-> FALSE, graph |-> new]

\* MapperAgent.execute: the new graph is merged into the existing one when
\* this is not the first iteration, and replaces it otherwise.
UpdatedGraph(state_iteration, existing, new) ==
    IF state_iteration > 0
    THEN MergeKnowledgeGraphs(existing, new)
    ELSE [raised |-> FALSE, graph |-> new]

\* _mapper_node with documents held and an extraction that answers: the
\* graph is built and stored; when merging raises, the exception is caught,
\* the graph of the state stays and the phase is reported as failed.
GraphMapper ==
    /\ pc = "mapper"
    /\ \E knowledge_data \in KnowledgeData :
         LET new_knowledge_graph == BuildKnowledgeGraph(knowledge_data)
             updated == UpdatedGraph(iteration, graph, new_knowledge_graph)
         IN /\ incoming' = [built |-> TRUE, graph |-> new_knowledge_graph]
            /\ graph' = IF updated.raised THEN graph ELSE updated.graph
            /\ status_message' = IF updated.raised
                                  THEN <<"mapper", "failed">>
                                  ELSE <<"mapper", "completed">>
    /\ current_phase' = "mapper"
    /\ pc' = Edge("mapper")
    /\ UNCHANGED <<iteration, max_iterations, adversarial_queries>>
    /\ UNCHANGED graphRest

\* _mapper_node with an extraction that fails after its retries.
GraphMapperFailed ==
    /\ pc = "mapper"
    /\ incoming' = NoIncoming
    /\ status_message' = <<"mapper", "failed">>
    /\ current_phase' = "mapper"
    /\ pc' = Edge("mapper")
    /\ UNCHANGED <<iteration, max_iterations, adversarial_queries, graph>>
    /\ UNCHANGED graphRest

\* _adversary_node without relationships in the graph.
GraphAdversarySkipped ==
    /\ pc = "adversary"
    /\ graph.relationships = <<>>
    /\ incoming' = NoIncoming
    /\ adversarial_queries' = <<>>
    /\ iteration' = iteration + 1
    /\ status_message' = <<"adversary", "skipped">>
    /\ current_phase' = "adversary"
    /\ pc' = Edge("adversary")
    /\ UNCHANGED <<max_iterations, graph>>
    /\ UNCHANGED graphRest

\* _adversary_node with relationships in the graph: no weakness is found,
\* or a follow-up query is left after filtering.
GraphAdversaryCompleted ==
    /\ pc = "adversary"
    /\ graph.relationships # <<>>
    /\ incoming' = NoIncoming
    /\ adversarial_queries' \in {<<>>, <<"q1">>}
    /\ iteration' = iteration + 1
    /\ status_message' = <<"adversary", "completed">>
    /\ current_phase' = "adversary"
    /\ pc' = Edge("adversary")
    /\ UNCHANGED <<max_iterations, graph>>
    /\ UNCHANGED graphRest

\* _adversary_node with an agent that fails or raises.
GraphAdversaryFailed ==
    /\ pc = "adversary"
    /\ graph.relationships # <<>>
    /\ incoming' = NoIncoming
    /\ adversarial_queries' = <<>>
    /\ iteration' = iteration + 1
    /\ status_message' = <<"adversary", "failed">>
    /\ current_phase' = "adversary"
    /\ pc' = Edge("adversary")
    /\ UNCHANGED <<max_iterations, graph>>
    /\ UNCHANGED graphRest

\* The conditional edge.
GraphDecide ==
    /\ pc = "decide"
    /\ pc' = ConditionalEdge(
                ShouldContinueIteration(iteration, max_iterations,
                                        adversarial_queries))
    /\ UNCHANGED <<iteration, max_iterations, current_phase, status_message,
                   adversarial_queries, graph, incoming>>
    /\ UNCHANGED graphRest

\* _scout_node.
GraphScout ==
    /\ pc = "scout"
    /\ status_message' = <<"scout", "completed">>
    /\ current_phase' = "scout"
    /\ pc' = Edge("scout")
    /\ UNCHANGED <<iteration, max_iterations, adversarial_queries, graph,
                   incoming>>
    /\ UNCHANGED graphRest

\* _judge_node: skipped without relationships; otherwise the graph is
\* replaced by a new one with the same entities and conflicts and with
\* every relationship created again with the credibility of its citation.
GraphJudge ==
    /\ pc = "judge"
    /\ IF graph.relationships = <<>>
       THEN /\ graph' = graph
            /\ status_message' = <<"judge", "skipped">>
       ELSE /\ \E score \in {50, 80} :
                 graph' = [entities |-> graph.entities,
                           relationships |->
                               AnnotateRelationships(graph.relationships,
                                                     score),
                           conflicts |-> graph.conflicts]
            /\ status_message' = <<"judge", "completed">>
    /\ current_phase' = "judge"
    /\ pc' = Edge("judge")
    /\ UNCHANGED <<iteration, max_iterations, adversarial_queries, incoming>>
    /\ UNCHANGED graphRest

\* _judge_node with an evaluation that fails.
GraphJudgeFailed ==
    /\ pc = "judge"
    /\ graph.relationships # <<>>
    /\ status_message' = <<"judge", "failed">>
    /\ current_phase' = "judge"
    /\ pc' = Edge("judge")
    /\ UNCHANGED <<iteration, max_iterations, adversarial_queries, graph,
                   incoming>>
    /\ UNCHANGED graphRest

\* _synthesis_node.
GraphSynthesis ==
    /\ pc = "synthesis"
    /\ status_message' \in {<<"synthesis", "completed">>,
                             <<"synthesis", "skipped">>,
                             <<"synthesis", "failed">>}
    /\ current_phase' = "synthesis"
    /\ pc' = Edge("synthesis")
    /\ UNCHANGED <<iteration, max_iterations, adversarial_queries, graph,
                   incoming>>
    /\ UNCHANGED graphRest

GraphNext ==
    \/ GraphMapper
    \/ GraphMapperFailed
    \/ GraphAdversarySkipped
    \/ GraphAdversaryCompleted
    \/ GraphAdversaryFailed
    \/ GraphDecide
    \/ GraphScout
    \/ GraphJudge
    \/ GraphJudgeFailed
    \/ GraphSynthesis

GraphSpec == GraphInit /\ [][GraphNext]_vars

GraphTypeOK ==
    /\ pc \in {"scout", "mapper", "adversary", "decide", "judge",
               "synthesis", "done"}
    /\ iteration \in 0..max_iterations
    /\ graph.entities \in Seq(Labels)
    /\ Len(graph.entities) = Cardinality(Range(graph.entities))
    /\ incoming.built \in BOOLEAN

(***************************************************************************)
(* Properties of recovery and of the checkpoint directory.                 *)
(***************************************************************************)

\* C13: when the identifier that recovery selects is one the call itself
\* wrote, it is the identifier the call wrote last: identifiers of later
\* phases and iterations sort after those of earlier ones.
C13_SelectedIsLatestWritten ==
    \A c \in Calls :
        (selected[c] # <<>> /\ selected[c] \in Range(written[c])) =>
            selected[c] = written[c][Len(written[c])]

\* C14: when graph.invoke has raised, execute returns a state loaded from a
\* checkpoint if checkpointing is enabled and some identifier in the
\* directory starts with the prefix built from the topic, and raises the
\* exception again otherwise.
C14_RecoveryOutcome ==
    [][\A c \in Calls :
          (at[c] = "failed" /\ at'[c] # "failed") =>
              IF enable_checkpoints /\
                 \E cp \in DOMAIN store :
                     StartsWith(cp, TopicPrefix(topic[c]))
              THEN at'[c] = "returned" /\ result'[c].kind = "recovered"
              ELSE at'[c] = "raised" /\ result'[c].kind = "exception"
      ]_vars

\* C15: every document a run has written loads back as a WorkflowState, and
\* the loaded state has the topic, iteration, entities and relationships
\* of the document.
C15_RoundTrip ==
    \A id \in DOMAIN store :
        LET back == LoadCheckpoint(store[id])
        IN /\ back.ok
           /\ back.state.topic = store[id].topic
           /\ back.state.iteration = store[id].iteration
           /\ back.state.knowledge_graph = store[id].knowledge_graph

\* C20: two calls of execute in progress at the same time never write the
\* same identifier, and recovery in one never selects an identifier the
\* other has written.
C20_NoCrossRunCollision ==
    \A c1, c2 \in Calls :
        c1 # c2 =>
            /\ Range(written[c1]) \cap Range(written[c2]) = {}
            /\ selected[c1] \notin Range(written[c2])

(***************************************************************************)
(* Properties of the knowledge graph over a run.                           *)
(***************************************************************************)

\* What a relationship claims: its credibility set aside.
Claim(rel) ==
    <<rel.source, rel.relation, rel.target, rel.citation>>

Claims(kg) == {Claim(kg.relationships[i]) : i \in 1..Len(kg.relationships)}

\* An extracting phase that merged: not the first iteration, and the merge
\* returned.
MergeStep ==
    /\ pc = "mapper"
    /\ iteration > 0
    /\ incoming'.built
    /\ status_message' = <<"mapper", "completed">>

\* C16: in every state of a run, after a first build, after a merge that
\* returned or raised, and after scoring, the source and the target of
\* every relationship of the knowledge graph are in its entity list.
C16_ReferentialIntegrity == ReferentialIntegrity(graph)

\* A merge has returned a graph that holds relationships of both
\* iterations, and the graph has been scored.
C16_Witness ==
    /\ pc = "synthesis"
    /\ iteration > 1
    /\ status_message = <<"judge", "completed">>
    /\ Len(graph.relationships) = 2
    /\ Len(graph.entities) > 1

\* C17: an extracting phase that merges never fails and never discards the
\* incoming extraction: every relationship of the incoming graph is kept
\* in the graph of the state, with its source and its target among the
\* entities.
C17_IncomingClaimsKept ==
    [][(pc = "mapper" /\ iteration > 0 /\ incoming'.built)
        => /\ status_message' = <<"mapper", "completed">>
           /\ Claims(incoming'.graph) \subseteq Claims(graph')
           /\ \A i \in 1..Len(incoming'.graph.relationships) :
                 /\ incoming'.graph.relationships[i].source
                        \in Range(graph'.entities)
                 /\ incoming'.graph.relationships[i].target
                        \in Range(graph'.entities)]_vars

\* C18: when an extracting phase merges, the graph of the state becomes:
\* entities, the deduplicated concatenation of the existing and the
\* incoming entities; relationships, the existing ones followed by the
\* incoming ones, repeated ones included; conflicts, the existing ones
\* followed by the incoming ones.
C18_MergedGraph ==
    [][MergeStep
        => /\ graph'.entities =
                 DeduplicateEntities(graph.entities
                                     \o incoming'.graph.entities)
           /\ graph'.relationships =
                 graph.relationships \o incoming'.graph.relationships
           /\ graph'.conflicts =
                 graph.conflicts \o incoming'.graph.conflicts]_vars

\* A merge has returned a graph that holds the same relationship twice,
\* with an incoming entity dropped as a duplicate of an existing one.
C18_Witness ==
    /\ pc = "adversary"
    /\ iteration > 0
    /\ incoming.built
    /\ status_message = <<"mapper", "completed">>
    /\ Len(graph.relationships) = 2
    /\ graph.relationships[1] = graph.relationships[2]
    /\ \E i \in 1..Len(incoming.graph.entities) :
          incoming.graph.entities[i] \notin Range(graph.entities)
    /\ Len(graph.conflicts) = 2

\* C19: every entity and every relationship (source, relation, target,
\* citation) of the knowledge graph is still in it after each step of the
\* run, hence after every later phase.
C19_KnowledgePreserved ==
    [][/\ Range(graph.entities) \subseteq Range(graph'.entities)
       /\ Claims(graph) \subseteq Claims(graph')]_vars

\* The graph of the first iteration holds entities and a relationship, a
\* later extraction has brought another relationship, and the graph has
\* been scored.
C19_Witness ==
    /\ pc = "synthesis"
    /\ iteration > 1
    /\ status_message = <<"judge", "completed">>
    /\ Cardinality(Claims(graph)) = 2
    /\ \A i \in 1..Len(graph.relationships) :
          graph.relationships[i].credibility = 50

(***************************************************************************)
(* The rest position of the workflow, for the specifications of the        *)
(* utilities below, which run no workflow.                                 *)
(***************************************************************************)
workflowVars == <<pc, stateVars, min_sources, enable_checkpoints,
                  store_writable, checkpoints, scoutLocals, issued,
                  loopbacks, runs, pre, last, storeVars, graphVars>>

WorkflowIdle ==
    /\ pc = "scout"
    /\ iteration = 0
    /\ sources = <<>>
    /\ knowledge_graph = EmptyGraph
    /\ adversarial_queries = <<>>
    /\ executed_queries = {}
    /\ synthesis_report = "none"
    /\ current_phase = "initialized"
    /\ status_message = <<"workflow", "initialized">>
    /\ min_sources = MinSources
    /\ enable_checkpoints = FALSE
    /\ checkpoints = {}
    /\ store_writable = FALSE
    /\ queries = <<>>
    /\ new_sources = <<>>
    /\ existing_domains = {}
    /\ issued = [q \in AllQueries |-> 0]
    /\ loopbacks = 0
    /\ runs = [p \in Phases |-> 0]
    /\ pre = Snapshot
    /\ last = [phase |-> "none", outcome |-> "none"]
    /\ topic = [c \in Calls |-> <<Ord.a>>]
    /\ state = [c \in Calls |-> Initialize(topic[c])]
    /\ at = [c \in Calls |-> "scout"]
    /\ store = EmptyStore
    /\ result = [c \in Calls |-> NoResult]
    /\ written = [c \in Calls |-> <<>>]
    /\ selected = [c \in Calls |-> <<>>]
    /\ graph = EmptyKnowledgeGraph
    /\ incoming = NoIncoming

(***************************************************************************)
(* StateCheckpoint (utils/error_handling.py): save_checkpoint,             *)
(* load_checkpoint, list_checkpoints and delete_checkpoint on one          *)
(* directory.  save_checkpoint opens the file {id}.json or {id}.pkl for    *)
(* writing, which creates or empties it, writes the text and closes it;    *)
(* these are three steps, and the calls of other threads (the sessions of  *)
(* the API share the directory) run between them.  One save is in progress *)
(* at a time, and the identifier being saved is not deleted meanwhile.     *)
(* Reconstruction with state_class is the subject of StoreSpec.            *)
(***************************************************************************)
CheckpointIds == {"x", "y"}

Formats == {"json", "pickle"}

\* The values the format argument takes: the two formats and another.
ArgFormats == Formats \cup {"xml"}

Slots == CheckpointIds \X Formats

\* The state argument of save_checkpoint: a dict of numbers; a dict that
\* holds a set, as model_dump() of a WorkflowState does; a dict with a
\* tuple key and a function value, which neither json nor pickle can dump.
SavedStates ==
    {[v |-> 1, holds |-> "numbers"],
     [v |-> 2, holds |-> "set"],
     [v |-> 3, holds |-> "tuple key, function"]}

NoState == [holds |-> "nothing"]

Absent == [written |-> "absent"]

NotSaving == [active |-> FALSE]

\* json.dump and pickle.dump complete.
Dumps(st) == st.holds # "tuple key, function"

\* What is in the file when a dump raises: json.dump has written the text
\* before the tuple key, pickle.dump has written nothing.
WrittenBeforeRaise(format) == IF format = "json" THEN "part" ELSE "none"

\* json.load of the text json.dump(state, default=str) wrote: a set is
\* written as the string str(set) and read as that string.
JsonLoad(st) ==
    IF st.holds = "set" THEN [st EXCEPT !.holds = "string"] ELSE st

\* pickle.load of the bytes pickle.dump wrote.
PickleLoad(st) == st

\* The body of the try block of load_checkpoint.
LoadBody(dir, id, format) ==
    IF format \notin Formats
    THEN [kind |-> "raised", error |-> "ValueError"]
    ELSE LET file == dir[<<id, format>>]
         IN IF file.written = "absent"
            THEN [kind |-> "raised", error |-> "FileNotFoundError"]
            ELSE IF file.written # "all"
            THEN [kind |-> "raised",
                  error |-> IF format = "json" THEN "JSONDecodeError"
                            ELSE "EOFError"]
            ELSE [kind |-> "returned",
                  state |-> IF format = "json" THEN JsonLoad(file.state)
                            ELSE PickleLoad(file.state)]

\* Faulty variant of LoadCheckpointFile: the exception of the body is not
\* caught.
LoadCheckpointFileUnwrapped(dir, id, format) ==
    LoadBody(dir, id, format)

\* load_checkpoint: every exception of the body is raised again as
\* StateRecoveryError.
LoadCheckpointFile(dir, id, format) ==
    LET body == LoadBody(dir, id, format)
    IN IF body.kind = "raised"
       THEN [kind |-> "raised", error |-> "StateRecoveryError"]
       ELSE body

\* list_checkpoints: how often each identifier is in the returned list.
\* The stems of *.json are appended, then the stems of *.pkl that are not
\* in the list yet.
ListCheckpoints(dir) ==
    [id \in CheckpointIds |->
        LET json_stems == IF dir[<<id, "json">>].written # "absent"
                          THEN 1 ELSE 0
            pkl_stems == IF dir[<<id, "pickle">>].written # "absent"
                            /\ json_stems = 0
                         THEN 1 ELSE 0
        IN json_stems + pkl_stems]

\* The identifiers with a file that holds less than a whole dump.
HalfWritten(dir) ==
    {id \in CheckpointIds :
        \E format \in Formats :
            dir[<<id, format>>].written \in {"none", "part"}}

\* The identifiers with a save that returned and no delete after it.
Saved == {id \in CheckpointIds :
             \E format \in Formats : latest[<<id, format>>] # NoState}

\* The identifier of the save in progress.
During == IF saving.active THEN saving.id ELSE "none"

CheckpointInit ==
    /\ WorkflowIdle
    /\ SessionsIdle
    /\ max_iterations = 1
    /\ files = [slot \in Slots |-> Absent]
    /\ saving = NotSaving
    /\ latest = [slot \in Slots |-> NoState]
    /\ observed = [op |-> "none"]
    /\ ops = 0
    /\ max_retries = 0
    /\ initial_backoff = 0
    /\ jitter = FALSE
    /\ attempt = 0
    /\ backoff_time = 0
    /\ trace = <<>>
    /\ ended = [kind |-> "none"]
    /\ args = [op |-> "none"]
    /\ ret = [kind |-> "none"]

\* save_checkpoint with a format that is neither "json" nor "pickle".
SaveUnsupported ==
    /\ ~saving.active
    /\ ops < MaxOps
    /\ \E id \in CheckpointIds, st \in SavedStates,
          format \in ArgFormats \ Formats :
         observed' = [op |-> "save", id |-> id, format |-> format,
                      state |-> st, kind |-> "raised",
                      error |-> "StateRecoveryError"]
    /\ ops' = ops + 1
    /\ UNCHANGED <<files, saving, latest>>
    /\ UNCHANGED <<workflowVars, sessionVars, retryVars, callVars>>

\* save_checkpoint, up to open(checkpoint_path, 'w'): the file exists and is
\* empty.
SaveOpen ==
    /\ ~saving.active
    /\ ops < MaxOps
    /\ \E id \in CheckpointIds, st \in SavedStates, format \in Formats :
         /\ saving' = [active |-> TRUE, id |-> id, format |-> format,
                       state |-> st, previous |-> files[<<id, format>>]]
         /\ files' = [files EXCEPT ![<<id, format>>] =
                         [state |-> st, written |-> "none"]]
    /\ ops' = ops + 1
    /\ UNCHANGED <<latest, observed>>
    /\ UNCHANGED <<workflowVars, sessionVars, retryVars, callVars>>

\* The dump starts: part of the text reaches the file, or the dump raises,
\* the file is closed as it is and StateRecoveryError is raised.
SaveWrite ==
    /\ saving.active
    /\ files[<<saving.id, saving.format>>].written = "none"
    /\ IF Dumps(saving.state)
       THEN /\ files' = [files EXCEPT
                    ![<<saving.id, saving.format>>].written = "part"]
            /\ UNCHANGED <<saving, observed>>
       ELSE /\ files' = [files EXCEPT
                    ![<<saving.id, saving.format>>].written =
                        WrittenBeforeRaise(saving.format)]
            /\ saving' = NotSaving
            /\ observed' = [op |-> "save", id |-> saving.id,
                            format |-> saving.format,
                            state |-> saving.state, kind |-> "raised",
                            error |-> "StateRecoveryError"]
    /\ UNCHANGED <<latest, ops>>
    /\ UNCHANGED <<workflowVars, sessionVars, retryVars, callVars>>

\* The rest of the text is written, the file is closed and the path is
\* returned.
SaveFinish ==
    /\ saving.active
    /\ files[<<saving.id, saving.format>>].written = "part"
    /\ files' = [files EXCEPT
            ![<<saving.id, saving.format>>].written = "all"]
    /\ latest' = [latest EXCEPT
            ![<<saving.id, saving.format>>] = saving.state]
    /\ saving' = NotSaving
    /\ observed' = [op |-> "save", id |-> saving.id,
                    format |-> saving.format, state |-> saving.state,
                    kind |-> "returned", previous |-> saving.previous,
                    stored |-> files'[<<saving.id, saving.format>>]]
    /\ UNCHANGED ops
    /\ UNCHANGED <<workflowVars, sessionVars, retryVars, callVars>>

\* load_checkpoint, by any thread at any time.
Load ==
    /\ ops < MaxOps
    /\ \E id \in CheckpointIds, format \in ArgFormats :
         LET loaded == LoadCheckpointFile(files, id, format)
         IN observed' =
                [op |-> "load", id |-> id, format |-> format,
                 kind |-> loaded.kind,
                 error |-> IF loaded.kind = "raised" THEN loaded.error
                           ELSE "none",
                 state |-> IF loaded.kind = "returned" THEN loaded.state
                           ELSE NoState,
                 seen |-> IF format \in Formats THEN files[<<id, format>>]
                          ELSE Absent,
                 expected |-> IF format \in Formats
                              THEN latest[<<id, format>>] ELSE NoState,
                 during |-> During,
                 partial |-> IF format \in Formats
                                /\ files[<<id, format>>].written
                                       \in {"none", "part"}
                             THEN {id} ELSE {}]
    /\ ops' = ops + 1
    /\ UNCHANGED <<files, saving, latest>>
    /\ UNCHANGED <<workflowVars, sessionVars, retryVars, callVars>>

\* list_checkpoints, by any thread at any time.
List ==
    /\ ops < MaxOps
    /\ observed' = [op |-> "list", count |-> ListCheckpoints(files),
                    saved |-> Saved, during |-> During,
                    partial |-> HalfWritten(files)]
    /\ ops' = ops + 1
    /\ UNCHANGED <<files, saving, latest>>
    /\ UNCHANGED <<workflowVars, sessionVars, retryVars, callVars>>

\* delete_checkpoint of an identifier that is not being saved.
Delete ==
    /\ ops < MaxOps
    /\ \E id \in CheckpointIds :
         /\ During # id
         /\ observed' = [op |-> "delete", id |-> id,
                         deleted |-> \E format \in Formats :
                                        files[<<id, format>>] # Absent,
                         saved |-> Saved]
         /\ files' = [slot \in Slots |->
                         IF slot[1] = id THEN Absent ELSE files[slot]]
         /\ latest' = [slot \in Slots |->
                          IF slot[1] = id THEN NoState ELSE latest[slot]]
    /\ ops' = ops + 1
    /\ UNCHANGED saving
    /\ UNCHANGED <<workflowVars, sessionVars, retryVars, callVars>>

CheckpointNext ==
    \/ SaveUnsupported
    \/ SaveOpen
    \/ SaveWrite
    \/ SaveFinish
    \/ Load
    \/ List
    \/ Delete

CheckpointSpec == CheckpointInit /\ [][CheckpointNext]_vars

CheckpointTypeOK ==
    /\ ops \in 0..MaxOps
    /\ saving.active \in BOOLEAN
    /\ \A slot \in Slots :
         /\ files[slot].written \in {"absent", "none", "part", "all"}
         /\ latest[slot] \in SavedStates \cup {NoState}
    /\ observed.op \in {"none", "save", "load", "list", "delete"}

(***************************************************************************)
(* Properties of the StateCheckpoint.                                      *)
(***************************************************************************)

\* C21: a load or a list that runs while an identifier is being saved does
\* not observe a half-written file of that identifier: it finds the whole
\* previous snapshot, no snapshot, or the whole new snapshot.
C21_NoPartialWriteVisible ==
    observed.op \in {"load", "list"} =>
        observed.during \notin observed.partial

\* C22: a load that follows saves of its identifier returns the state of
\* the last save that returned; and a save of the state that the file
\* already holds leaves the file as it was.
C22_LoadReturnsLastSave ==
    /\ (/\ observed.op = "load"
        /\ observed.during # observed.id
        /\ observed.expected # NoState)
        => /\ observed.kind = "returned"
           /\ observed.state = observed.expected
    /\ (/\ observed.op = "save"
        /\ observed.kind = "returned"
        /\ observed.previous.written = "all"
        /\ observed.previous.state = observed.state)
        => observed.stored = observed.previous

\* C23: a load of an identifier without a file, of a file that does not
\* hold a whole dump, or with an unsupported format raises
\* StateRecoveryError and nothing else, and no load changes the files; a
\* save with an unsupported format raises StateRecoveryError and changes
\* no file.
C23_RecoveryErrorOnly ==
    [][/\ (observed' # observed /\ observed'.op = "load")
          => /\ files' = files
             /\ (\/ observed'.format \notin Formats
                 \/ observed'.seen.written # "all")
                => /\ observed'.kind = "raised"
                   /\ observed'.error = "StateRecoveryError"
       /\ (/\ observed' # observed
           /\ observed'.op = "save"
           /\ observed'.format \notin Formats)
          => /\ files' = files
             /\ observed'.kind = "raised"
             /\ observed'.error = "StateRecoveryError"]_vars

\* A file that a failed save has left half-written has been loaded, with no
\* save in progress.
C23_Witness ==
    /\ observed.op = "load"
    /\ observed.seen.written = "part"
    /\ observed.during = "none"
    /\ observed.kind = "raised"

\* C24: with no save in progress, list returns each identifier that has
\* been saved and not deleted since exactly once and no other identifier;
\* delete returns true exactly when the identifier had been saved and not
\* deleted since.
C24_ListAndDelete ==
    /\ (observed.op = "list" /\ observed.during = "none")
        => \A id \in CheckpointIds :
              observed.count[id] = IF id \in observed.saved THEN 1 ELSE 0
    /\ observed.op = "delete"
        => observed.deleted = (observed.id \in observed.saved)

(***************************************************************************)
(* exponential_backoff_retry (utils/error_handling.py): the loop of the    *)
(* wrapper around a function that, at each invocation, returns, raises     *)
(* NonRetryableError or raises another exception.  The trace holds the     *)
(* invocations <<"call", attempt, result>> and the sleeps                  *)
(* <<"sleep", half_seconds>> in their order.                               *)
(***************************************************************************)

\* The values of initial_backoff, in seconds; the second one makes
\* max_backoff the shorter delay.
InitialBackoffs == {1, 40}

\* random.uniform(0.5, 1.5), in halves.
JitterFactors == {1, 2, 3}

Min(a, b) == IF a <= b THEN a ELSE b

\* actual_backoff, in half seconds.
ActualBackoff(time, with_jitter, jitter_factor) ==
    IF with_jitter
    THEN Min(time * jitter_factor, 2 * MaxBackoff)
    ELSE Min(2 * time, 2 * MaxBackoff)

Calls_(tr) == {i \in 1..Len(tr) : tr[i][1] = "call"}

UtilRest ==
    /\ WorkflowIdle
    /\ SessionsIdle
    /\ max_iterations = 1
    /\ files = <<>>
    /\ saving = [active |-> FALSE]
    /\ latest = <<>>
    /\ observed = [op |-> "none"]
    /\ ops = 0
    /\ args = [op |-> "none"]
    /\ ret = [kind |-> "none"]

RetryInit ==
    /\ UtilRest
    /\ max_retries \in 0..MaxRetries
    /\ initial_backoff \in InitialBackoffs
    /\ jitter \in BOOLEAN
    /\ attempt = 0
    /\ backoff_time = initial_backoff
    /\ trace = <<>>
    /\ ended = [kind |-> "running"]

\* return func(*args, **kwargs)
AttemptReturns ==
    /\ ended.kind = "running"
    /\ attempt < max_retries
    /\ trace' = Append(trace, <<"call", attempt, "returned">>)
    /\ ended' = [kind |-> "returned", at |-> attempt]
    /\ UNCHANGED <<max_retries, initial_backoff, jitter, attempt,
                   backoff_time>>
    /\ UNCHANGED <<workflowVars, sessionVars, checkpointVars, callVars>>

\* Faulty variant of AttemptNonRetryable: NonRetryableError is handled as
\* any other exception.
AttemptNonRetryableRetried ==
    /\ ended.kind = "running"
    /\ attempt < max_retries
    /\ IF attempt = max_retries - 1
       THEN /\ trace' = Append(trace,
                               <<"call", attempt, "NonRetryableError">>)
            /\ ended' = [kind |-> "raised",
                         exc |-> [type |-> "NonRetryableError",
                                  at |-> attempt]]
            /\ UNCHANGED <<attempt, backoff_time>>
       ELSE /\ trace' = trace \o
                    <<<<"call", attempt, "NonRetryableError">>,
                      <<"sleep", ActualBackoff(backoff_time, FALSE, 2)>>>>
            /\ backoff_time' = backoff_time * BackoffFactor
            /\ attempt' = attempt + 1
            /\ UNCHANGED ended
    /\ UNCHANGED <<max_retries, initial_backoff, jitter>>
    /\ UNCHANGED <<workflowVars, sessionVars, checkpointVars, callVars>>

\* except NonRetryableError: raise
AttemptNonRetryable ==
    /\ ended.kind = "running"
    /\ attempt < max_retries
    /\ trace' = Append(trace, <<"call", attempt, "NonRetryableError">>)
    /\ ended' = [kind |-> "raised",
                 exc |-> [type |-> "NonRetryableError", at |-> attempt]]
    /\ UNCHANGED <<max_retries, initial_backoff, jitter, attempt,
                   backoff_time>>
    /\ UNCHANGED <<workflowVars, sessionVars, checkpointVars, callVars>>

\* except Exception, on the last attempt: raise
AttemptFailsLast ==
    /\ ended.kind = "running"
    /\ attempt < max_retries
    /\ attempt = max_retries - 1
    /\ trace' = Append(trace, <<"call", attempt, "Exception">>)
    /\ ended' = [kind |-> "raised",
                 exc |-> [type |-> "Exception", at |-> attempt]]
    /\ UNCHANGED <<max_retries, initial_backoff, jitter, attempt,
                   backoff_time>>
    /\ UNCHANGED <<workflowVars, sessionVars, checkpointVars, callVars>>

\* Faulty variant of AttemptFailsSleeps: the next attempt follows at once.
AttemptFailsNoSleep ==
    /\ ended.kind = "running"
    /\ attempt < max_retries - 1
    /\ trace' = Append(trace, <<"call", attempt, "Exception">>)
    /\ backoff_time' = backoff_time * BackoffFactor
    /\ attempt' = attempt + 1
    /\ UNCHANGED <<max_retries, initial_backoff, jitter, ended>>
    /\ UNCHANGED <<workflowVars, sessionVars, checkpointVars, callVars>>

\* except Exception, before the last attempt: sleep, then the next attempt.
AttemptFailsSleeps ==
    /\ ended.kind = "running"
    /\ attempt < max_retries - 1
    /\ \E jitter_factor \in JitterFactors :
         trace' = trace \o
             <<<<"call", attempt, "Exception">>,
               <<"sleep",
                 ActualBackoff(backoff_time, jitter, jitter_factor)>>>>
    /\ backoff_time' = backoff_time * BackoffFactor
    /\ attempt' = attempt + 1
    /\ UNCHANGED <<max_retries, initial_backoff, jitter, ended>>
    /\ UNCHANGED <<workflowVars, sessionVars, checkpointVars, callVars>>

\* The loop ends without an attempt (max_retries is 0): raise
\* last_exception, which is None, raises TypeError.
LoopExhausted ==
    /\ ended.kind = "running"
    /\ attempt >= max_retries
    /\ ended' = [kind |-> "raised",
                 exc |-> [type |-> "TypeError", at |-> attempt]]
    /\ UNCHANGED <<max_retries, initial_backoff, jitter, attempt,
                   backoff_time, trace>>
    /\ UNCHANGED <<workflowVars, sessionVars, checkpointVars, callVars>>

RetryNext ==
    \/ AttemptReturns
    \/ AttemptNonRetryable
    \/ AttemptFailsLast
    \/ AttemptFailsSleeps
    \/ LoopExhausted

RetrySpec == RetryInit /\ [][RetryNext]_vars

RetryTypeOK ==
    /\ max_retries \in 0..MaxRetries
    /\ attempt \in 0..MaxRetries
    /\ ended.kind \in {"running", "returned", "raised"}
    /\ \A i \in 1..Len(trace) : trace[i][1] \in {"call", "sleep"}

(***************************************************************************)
(* Properties of exponential_backoff_retry.                                *)
(***************************************************************************)

\* C25: the wrapped function is invoked at most max_retries times; an
\* invocation that returns is the last one; a sleep lies between two
\* consecutive invocations; and when max_retries invocations have all
\* failed, the exception of the last one is raised.
C25_BoundedAttempts ==
    /\ Cardinality(Calls_(trace)) <= max_retries
    /\ \A i \in Calls_(trace) :
         trace[i][3] = "returned"
            => i = Len(trace) /\ ended.kind = "returned"
    /\ \A i \in 1..(Len(trace) - 1) :
         trace[i][1] = "call" => trace[i + 1][1] = "sleep"
    /\ (/\ ended.kind # "running"
        /\ max_retries > 0
        /\ \A i \in Calls_(trace) : trace[i][3] = "Exception")
        => /\ Cardinality(Calls_(trace)) = max_retries
           /\ ended = [kind |-> "raised",
                       exc |-> [type |-> "Exception",
                                at |-> max_retries - 1]]

\* Three invocations have failed, two sleeps lie between them, and the
\* exception of the third has been raised.
C25_Witness ==
    /\ max_retries = 3
    /\ ended.kind = "raised"
    /\ ended.exc = [type |-> "Exception", at |-> 2]
    /\ Len(trace) = 5
    /\ trace[2][1] = "sleep"
    /\ trace[4][1] = "sleep"

\* C26: an invocation that raises NonRetryableError is the last thing the
\* wrapper does: no sleep and no invocation follows, and that error is
\* raised to the caller.
C26_NonRetryableShortCircuits ==
    \A i \in Calls_(trace) :
        trace[i][3] = "NonRetryableError"
            => /\ i = Len(trace)
               /\ ended = [kind |-> "raised",
                           exc |-> [type |-> "NonRetryableError",
                                    at |-> trace[i][2]]]

\* NonRetryableError has been raised by the second invocation of three
\* allowed ones.
C26_Witness ==
    /\ max_retries = 3
    /\ ended.kind = "raised"
    /\ ended.exc = [type |-> "NonRetryableError", at |-> 1]
    /\ Len(trace) = 3

(***************************************************************************)
(* ScoutAgent.search_tavily and search_serper (agents/scout.py): the two   *)
(* functions have the same retry loop.  Each request is answered with a    *)
(* status code or raises another exception (a timeout, a connection        *)
(* error).  The trace holds <<"call", attempt, response>> and              *)
(* <<"sleep", seconds>>.                                                   *)
(***************************************************************************)

\* The status codes of httpx.HTTPStatusError other than 429 that are drawn.
ErrorStatuses == {401, 404, 500, 503}

Ok == [kind |-> "status", code |-> 200]

HttpStatusError(code) == [kind |-> "status", code |-> code]

\* httpx.TimeoutException and every exception that is not HTTPStatusError.
Timeout == [kind |-> "timeout", code |-> 0]

RECURSIVE Pow2(_)
Pow2(n) == IF n = 0 THEN 1 ELSE 2 * Pow2(n - 1)

SearchInit ==
    /\ WorkflowIdle
    /\ SessionsIdle
    /\ max_iterations = 1
    /\ files = <<>>
    /\ saving = [active |-> FALSE]
    /\ latest = <<>>
    /\ observed = [op |-> "none"]
    /\ ops = 0
    /\ \E provider \in {"tavily", "serper"}, api_key \in BOOLEAN :
         args = [op |-> "search", provider |-> provider,
                 api_key |-> api_key]
    /\ ret = [kind |-> "none"]
    /\ max_retries \in 0..MaxRetries
    /\ initial_backoff \in InitialBackoffs
    /\ jitter = FALSE
    /\ attempt = 0
    /\ backoff_time = 0
    /\ trace = <<>>
    /\ ended = [kind |-> "running"]

\* if not config.tavily_api_key: raise SearchAPIError
SearchNoKey ==
    /\ ended.kind = "running"
    /\ ~args.api_key
    /\ ended' = [kind |-> "raised",
                 exc |-> [type |-> "SearchAPIError", at |-> attempt]]
    /\ UNCHANGED <<max_retries, initial_backoff, jitter, attempt,
                   backoff_time, trace>>
    /\ UNCHANGED <<workflowVars, sessionVars, checkpointVars, callVars>>

\* The request succeeds: return results.
SearchOk ==
    /\ ended.kind = "running"
    /\ args.api_key
    /\ attempt < max_retries
    /\ trace' = Append(trace, <<"call", attempt, Ok>>)
    /\ ended' = [kind |-> "returned", at |-> attempt]
    /\ UNCHANGED <<max_retries, initial_backoff, jitter, attempt,
                   backoff_time>>
    /\ UNCHANGED <<workflowVars, sessionVars, checkpointVars, callVars>>

\* HTTPStatusError with status 429: sleep, then the next pass of the loop
\* (on the last pass too).
SearchRateLimited ==
    /\ ended.kind = "running"
    /\ args.api_key
    /\ attempt < max_retries
    /\ trace' = trace \o
           <<<<"call", attempt, HttpStatusError(RateLimitStatus)>>,
             <<"sleep", initial_backoff * Pow2(attempt)>>>>
    /\ attempt' = attempt + 1
    /\ UNCHANGED <<max_retries, initial_backoff, jitter, backoff_time,
                   ended>>
    /\ UNCHANGED <<workflowVars, sessionVars, checkpointVars, callVars>>

\* HTTPStatusError with any other status: raise SearchAPIError.
SearchHttpError ==
    /\ ended.kind = "running"
    /\ args.api_key
    /\ attempt < max_retries
    /\ \E code \in ErrorStatuses :
         trace' = Append(trace, <<"call", attempt, HttpStatusError(code)>>)
    /\ ended' = [kind |-> "raised",
                 exc |-> [type |-> "SearchAPIError", at |-> attempt]]
    /\ UNCHANGED <<max_retries, initial_backoff, jitter, attempt,
                   backoff_time>>
    /\ UNCHANGED <<workflowVars, sessionVars, checkpointVars, callVars>>

\* Another exception before the last attempt: sleep, then the next pass.
SearchFailsSleeps ==
    /\ ended.kind = "running"
    /\ args.api_key
    /\ attempt < max_retries - 1
    /\ trace' = trace \o
           <<<<"call", attempt, Timeout>>,
             <<"sleep", initial_backoff * Pow2(attempt)>>>>
    /\ attempt' = attempt + 1
    /\ UNCHANGED <<max_retries, initial_backoff, jitter, backoff_time,
                   ended>>
    /\ UNCHANGED <<workflowVars, sessionVars, checkpointVars, callVars>>

\* Another exception on the last attempt: raise SearchAPIError.
SearchFailsLast ==
    /\ ended.kind = "running"
    /\ args.api_key
    /\ attempt < max_retries
    /\ attempt = max_retries - 1
    /\ trace' = Append(trace, <<"call", attempt, Timeout>>)
    /\ ended' = [kind |-> "raised",
                 exc |-> [type |-> "SearchAPIError", at |-> attempt]]
    /\ UNCHANGED <<max_retries, initial_backoff, jitter, attempt,
                   backoff_time>>
    /\ UNCHANGED <<workflowVars, sessionVars, checkpointVars, callVars>>

\* The loop is over: raise SearchAPIError("... failed after n attempts").
SearchExhausted ==
    /\ ended.kind = "running"
    /\ args.api_key
    /\ attempt >= max_retries
    /\ ended' = [kind |-> "raised",
                 exc |-> [type |-> "SearchAPIError", at |-> attempt]]
    /\ UNCHANGED <<max_retries, initial_backoff, jitter, attempt,
                   backoff_time, trace>>
    /\ UNCHANGED <<workflowVars, sessionVars, checkpointVars, callVars>>

SearchNext ==
    \/ SearchNoKey
    \/ SearchOk
    \/ SearchRateLimited
    \/ SearchHttpError
    \/ SearchFailsSleeps
    \/ SearchFailsLast
    \/ SearchExhausted

SearchSpec == SearchInit /\ [][SearchNext]_vars

SearchTypeOK ==
    /\ max_retries \in 0..MaxRetries
    /\ attempt \in 0..MaxRetries
    /\ ended.kind \in {"running", "returned", "raised"}
    /\ \A i \in Calls_(trace) :
         trace[i][3] \in {Ok, Timeout, HttpStatusError(RateLimitStatus)}
                          \cup {HttpStatusError(c) : c \in ErrorStatuses}

(***************************************************************************)
(* Properties of the search calls.                                         *)
(***************************************************************************)

\* A rate limit, a timeout or a 5xx response.
RetryableTransportError(response) ==
    \/ response.kind = "timeout"
    \/ response.kind = "status" /\ response.code = RateLimitStatus
    \/ response.kind = "status" /\ response.code \div 100 = 5

\* An auth failure or a 4xx response other than 429.
NonRetryableResponse(response) ==
    /\ response.kind = "status"
    /\ response.code \div 100 = 4
    /\ response.code # RateLimitStatus

LastCall(tr) == CHOOSE i \in Calls_(tr) : \A j \in Calls_(tr) : j <= i

\* C27: a request answered with a rate limit, a timeout or a 5xx response
\* is followed by a sleep and, while attempts are left, by another
\* request, so that a search that fails on such a response has made all
\* max_retries requests; a request answered with another 4xx response is
\* the last one and fails the search.
C27_RetryableErrorsRetried ==
    /\ \A i \in Calls_(trace) :
         (RetryableTransportError(trace[i][3]) /\ i < Len(trace))
             => trace[i + 1][1] = "sleep"
    /\ (/\ ended.kind = "raised"
        /\ Calls_(trace) # {}
        /\ RetryableTransportError(trace[LastCall(trace)][3]))
        => Cardinality(Calls_(trace)) = max_retries
    /\ \A i \in Calls_(trace) :
         NonRetryableResponse(trace[i][3])
             => i = Len(trace) /\ ended.kind = "raised"

(***************************************************************************)
(* Single calls of functions whose result depends on their arguments only: *)
(* WorkflowOrchestrator.initialize, MapperAgent._deduplicate_entities,     *)
(* MapperAgent._find_best_entity_match and the graph construction of       *)
(* MapperAgent.build_knowledge_graph.                                      *)
(***************************************************************************)

\* A space, an underscore, a letter and a digit.
TopicChars == {Ord.sp, Ord.us, Ord.a, Ord.zero}

\* c.isalnum() for an ASCII character.
IsAlnum(c) ==
    \/ c \in Ord.zero..(Ord.zero + 9)
    \/ c \in 65..90
    \/ c \in Ord.a..Ord.z

\* Faulty variant of WorkflowInitialize: a topic without a letter or digit
\* is accepted.
WorkflowInitializeUnchecked(topic_arg, orchestrator_max_iterations) ==
    IF topic_arg = <<>> \/ Strip(topic_arg) = <<>>
    THEN [kind |-> "raised", exc |-> "ValueError"]
    ELSE [kind |-> "returned",
          state |-> [topic |-> Strip(topic_arg),
                     iteration |-> 0,
                     max_iterations |-> orchestrator_max_iterations,
                     current_phase |-> "initialized",
                     status_message |->
                         [text |-> "Research workflow initialized for topic",
                          topic |-> Strip(topic_arg)],
                     sources |-> <<>>,
                     knowledge_graph |-> EmptyKnowledgeGraph,
                     adversarial_queries |-> <<>>,
                     executed_queries |-> {},
                     synthesis_report |-> [present |-> FALSE]]]

\* WorkflowOrchestrator.initialize: the two validations, then WorkflowState
\* with the fields it is given and the defaults of the others.
WorkflowInitialize(topic_arg, orchestrator_max_iterations) ==
    IF topic_arg = <<>> \/ Strip(topic_arg) = <<>>
    THEN [kind |-> "raised", exc |-> "ValueError"]
    ELSE IF ~\E i \in 1..Len(topic_arg) : IsAlnum(topic_arg[i])
    THEN [kind |-> "raised", exc |-> "ValueError"]
    ELSE [kind |-> "returned",
          state |-> [topic |-> Strip(topic_arg),
                     iteration |-> 0,
                     max_iterations |-> orchestrator_max_iterations,
                     current_phase |-> "initialized",
                     status_message |->
                         [text |-> "Research workflow initialized for topic",
                          topic |-> Strip(topic_arg)],
                     sources |-> <<>>,
                     knowledge_graph |-> EmptyKnowledgeGraph,
                     adversarial_queries |-> <<>>,
                     executed_queries |-> {},
                     synthesis_report |-> [present |-> FALSE]]]

\* The credibility values a Conflict accepts: 0.0 to 1.0 on the grid.
Credibilities == 0..ScoreSteps

\* Component scores as a caller can pass them, those out of range included.
ScoreArgs == (0 - 1)..(ScoreSteps + 1)

\* Faulty variant of ResolveConflict: a tie goes to side A.
ResolveConflictTieToA(conflict) ==
    IF conflict.side_a_credibility >= conflict.side_b_credibility
    THEN "side_a"
    ELSE "side_b"

\* JudgeAgent.resolve_conflict
ResolveConflict(conflict) ==
    IF conflict.side_a_credibility > conflict.side_b_credibility
    THEN "side_a"
    ELSE IF conflict.side_b_credibility > conflict.side_a_credibility
    THEN "side_b"
    ELSE "tie"

\* The weighted sum of three component scores given in grid steps, in
\* units of 1 / (10 * ScoreSteps).
WeightedSum(domain_authority, citation_indicators, recency) ==
    domain_authority * DomainWeight
        + citation_indicators * CitationWeight
        + recency * RecencyWeight

\* Faulty variant of CalculateOverallScore: the components are averaged.
CalculateOverallScoreAveraged(domain_authority, citation_indicators, recency) ==
    LET overall ==
            ((domain_authority + citation_indicators + recency) * 10) \div 3
    IN IF overall < 0 THEN 0
       ELSE IF overall > 10 * ScoreSteps THEN 10 * ScoreSteps
       ELSE overall

\* JudgeAgent._calculate_overall_score: max(0.0, min(1.0, overall))
CalculateOverallScore(domain_authority, citation_indicators, recency) ==
    LET overall ==
            WeightedSum(domain_authority, citation_indicators, recency)
    IN IF overall < 0 THEN 0
       ELSE IF overall > 10 * ScoreSteps THEN 10 * ScoreSteps
       ELSE overall

\* Relationships as the adversary can find them in a graph: one claim cited
\* from two documents, another claim cited from the first document.
CitedRelationships ==
    {[source |-> "coffee", relation |-> "r", target |-> "ai",
      citation |-> "u", credibility |-> 100],
     [source |-> "coffee", relation |-> "r", target |-> "ai",
      citation |-> "v", credibility |-> 100],
     [source |-> "ai", relation |-> "r", target |-> "coffee",
      citation |-> "u", credibility |-> 100]}

\* rel_key: f"{rel.source}|{rel.relation}|{rel.target}".  No label holds
\* the separator, so the key tells the three parts.
RelKey(rel) == <<rel.source, "|", rel.relation, "|", rel.target>>

\* AdversaryAgent.identify_single_source_claims: one weakness for each key
\* that exactly one relationship of the graph has.
IdentifySingleSourceClaims(kg) ==
    LET rels == kg.relationships
        single ==
            SelectSeq(rels,
                      LAMBDA rel :
                          Cardinality({j \in 1..Len(rels) :
                                          RelKey(rels[j]) = RelKey(rel)})
                              = 1)
    IN [i \in 1..Len(single) |->
            [type |-> "single_source",
             description |-> single[i].citation,
             affected_claims |->
                 <<<<single[i].source, single[i].relation,
                     single[i].target>>>>]]

CallArgs ==
    {[op |-> "identify_single_source_claims",
      knowledge_graph |-> [entities |-> <<"coffee", "ai">>,
                           relationships |-> rels,
                           conflicts |-> <<>>]] :
        rels \in SeqsUpTo(CitedRelationships, 0, MaxInstances)}
    \cup
    {[op |-> "resolve_conflict",
      conflict |-> [side_a_credibility |-> a, side_b_credibility |-> b]] :
        a \in Credibilities, b \in Credibilities}
    \cup {[op |-> "overall", domain_authority |-> d,
           citation_indicators |-> c, recency |-> r] :
            d \in ScoreArgs, c \in ScoreArgs, r \in ScoreArgs}
    \cup
    {[op |-> "initialize", topic |-> t] :
        t \in SeqsUpTo(TopicChars, 0, MaxTopicLen)}
    \cup {[op |-> "deduplicate", entities |-> es] :
            es \in SeqsUpTo(EntityStrings, 0, MaxEntities)}
    \cup {[op |-> "resolve", entity_name |-> name, entity_list |-> es,
           threshold |-> t] :
            name \in Labels, es \in SeqsUpTo(Labels, 0, MaxRawEntities),
            t \in {RelationshipThreshold, FuzzyMatchThreshold}}
    \cup {[op |-> "build", knowledge_data |-> kd] : kd \in KnowledgeData}

CallInit ==
    /\ WorkflowIdle
    /\ SessionsIdle
    /\ files = <<>>
    /\ saving = [active |-> FALSE]
    /\ latest = <<>>
    /\ observed = [op |-> "none"]
    /\ ops = 0
    /\ max_retries = 0
    /\ initial_backoff = 0
    /\ jitter = FALSE
    /\ attempt = 0
    /\ backoff_time = 0
    /\ trace = <<>>
    /\ ended = [kind |-> "none"]
    /\ args \in CallArgs
    /\ max_iterations \in
           IF args.op = "initialize" THEN 1..MaxIterations ELSE {1}
    /\ ret = [kind |-> "none"]

CallInitialize ==
    /\ args.op = "initialize"
    /\ ret.kind = "none"
    /\ ret' = WorkflowInitialize(args.topic, max_iterations)
    /\ UNCHANGED <<args, workflowVars, sessionVars, checkpointVars, retryVars>>

CallDeduplicate ==
    /\ args.op = "deduplicate"
    /\ ret.kind = "none"
    /\ ret' = [kind |-> "returned",
               value |-> DeduplicateEntities(args.entities)]
    /\ UNCHANGED <<args, workflowVars, sessionVars, checkpointVars, retryVars>>

CallResolve ==
    /\ args.op = "resolve"
    /\ ret.kind = "none"
    /\ ret' = [kind |-> "returned",
               value |-> FindBestEntityMatch(args.entity_name,
                                             args.entity_list,
                                             args.threshold)]
    /\ UNCHANGED <<args, workflowVars, sessionVars, checkpointVars, retryVars>>

CallBuild ==
    /\ args.op = "build"
    /\ ret.kind = "none"
    /\ ret' = [kind |-> "returned",
               graph |-> BuildKnowledgeGraph(args.knowledge_data)]
    /\ UNCHANGED <<args, workflowVars, sessionVars, checkpointVars, retryVars>>

CallResolveConflict ==
    /\ args.op = "resolve_conflict"
    /\ ret.kind = "none"
    /\ ret' = [kind |-> "returned", value |-> ResolveConflict(args.conflict)]
    /\ UNCHANGED <<args, workflowVars, sessionVars, checkpointVars, retryVars>>

CallOverall ==
    /\ args.op = "overall"
    /\ ret.kind = "none"
    /\ ret' = [kind |-> "returned",
               value |-> CalculateOverallScore(args.domain_authority,
                                               args.citation_indicators,
                                               args.recency)]
    /\ UNCHANGED <<args, workflowVars, sessionVars, checkpointVars, retryVars>>

CallIdentifySingleSource ==
    /\ args.op = "identify_single_source_claims"
    /\ ret.kind = "none"
    /\ ret' = [kind |-> "returned",
               value |-> IdentifySingleSourceClaims(args.knowledge_graph)]
    /\ UNCHANGED <<args, workflowVars, sessionVars, checkpointVars, retryVars>>

CallNext ==
    \/ CallIdentifySingleSource
    \/ CallResolveConflict
    \/ CallOverall
    \/ CallInitialize
    \/ CallDeduplicate
    \/ CallResolve
    \/ CallBuild

CallSpec == CallInit /\ [][CallNext]_vars

CallTypeOK ==
    /\ args \in CallArgs
    /\ ret.kind \in {"none", "returned", "raised"}

(***************************************************************************)
(* Properties of initialize.                                               *)
(***************************************************************************)

\* topic.strip(), told from the positions of the characters that are not
\* spaces.
Trimmed(topic_arg) ==
    LET kept == {i \in 1..Len(topic_arg) : topic_arg[i] # Ord.sp}
        left == CHOOSE i \in kept : \A j \in kept : i <= j
        right == CHOOSE i \in kept : \A j \in kept : j <= i
    IN IF kept = {} THEN <<>> ELSE SubSeq(topic_arg, left, right)

\* C28: initialize raises the invalid-topic error, and returns no state,
\* exactly when the topic is empty, is made of whitespace only or has no
\* alphanumeric character; otherwise it returns a state with the trimmed
\* topic, iteration 0, phase "initialized", a non-empty status message, the
\* orchestrator's max_iterations, and no sources, graph content, queries or
\* report.
C28_InitializeValidatesTopic ==
    (args.op = "initialize" /\ ret.kind # "none") =>
        LET topic_arg == args.topic
            invalid ==
                \/ topic_arg = <<>>
                \/ \A i \in 1..Len(topic_arg) : topic_arg[i] = Ord.sp
                \/ \A i \in 1..Len(topic_arg) : ~IsAlnum(topic_arg[i])
        IN /\ ret.kind = "raised" <=> invalid
           /\ ret.kind = "raised"
                => ret = [kind |-> "raised", exc |-> "ValueError"]
           /\ ret.kind = "returned" =>
                /\ ret.state.topic = Trimmed(topic_arg)
                /\ ret.state.iteration = 0
                /\ ret.state.current_phase = "initialized"
                /\ ret.state.status_message.text # ""
                /\ ret.state.max_iterations = max_iterations
                /\ ret.state.sources = <<>>
                /\ ret.state.knowledge_graph = EmptyKnowledgeGraph
                /\ ret.state.adversarial_queries = <<>>
                /\ ret.state.executed_queries = {}
                /\ ~ret.state.synthesis_report.present

\* A topic with a space on each side of a letter has been accepted and
\* trimmed, under an orchestrator whose max_iterations is not the default
\* of the state.
C28_Witness ==
    /\ args.op = "initialize"
    /\ args.topic = <<Ord.sp, Ord.a, Ord.sp>>
    /\ max_iterations = MaxIterations
    /\ ret.kind = "returned"
    /\ ret.state.topic = <<Ord.a>>

(***************************************************************************)
(* Properties of _deduplicate_entities.                                    *)
(***************************************************************************)

\* The increasing maps from the positions of an output of length m to the
\* positions of an input of length n.
Embeddings(m, n) ==
    {f \in [1..m -> 1..n] : \A i, j \in 1..m : i < j => f[i] < f[j]}

\* No two entities of the list are similar.
PairwiseDistinct(entities) ==
    \A i, j \in 1..Len(entities) :
        i # j => Similarity(entities[i], entities[j]) < FuzzyMatchThreshold

\* C29, as stated: the output is the input entities kept in their order,
\* where an entity is kept exactly when it is similar to none of the
\* entities kept before it; the output is no longer than the input and has
\* no two similar entities.
C29_KeptIffDissimilar ==
    (args.op = "deduplicate" /\ ret.kind = "returned") =>
        LET input == args.entities
            output == ret.value
        IN /\ Len(output) <= Len(input)
           /\ PairwiseDistinct(output)
           /\ \E f \in Embeddings(Len(output), Len(input)) :
                /\ \A k \in 1..Len(output) : output[k] = input[f[k]]
                /\ \A i \in 1..Len(input) :
                     (i \in {f[k] : k \in 1..Len(output)})
                        <=> \A k \in 1..Len(output) :
                                f[k] < i
                                    => Similarity(input[i], output[k])
                                           < FuzzyMatchThreshold

\* C29, amended: the output is the stripped input entities kept in their
\* order, where an entity is kept exactly when its stripped form is not
\* empty and is similar to none of the entities kept before it; the output
\* is no longer than the input and has no two similar entities.
C29_StrippedKeptIffDissimilar ==
    (args.op = "deduplicate" /\ ret.kind = "returned") =>
        LET input == args.entities
            stripped == [i \in 1..Len(input) |-> StripLabel(input[i])]
            output == ret.value
        IN /\ Len(output) <= Len(input)
           /\ PairwiseDistinct(output)
           /\ \E f \in Embeddings(Len(output), Len(input)) :
                /\ \A k \in 1..Len(output) : output[k] = stripped[f[k]]
                /\ \A i \in 1..Len(input) :
                     (i \in {f[k] : k \in 1..Len(output)})
                        <=> /\ stripped[i] # ""
                            /\ \A k \in 1..Len(output) :
                                 f[k] < i
                                    => Similarity(stripped[i], output[k])
                                           < FuzzyMatchThreshold

\* A padded entity, the same word in upper case and another word have been
\* deduplicated to the stripped first form and the other word.
C29_Witness ==
    /\ args.op = "deduplicate"
    /\ args.entities = <<" coffee", "COFFEE", "Tea">>
    /\ ret.kind = "returned"
    /\ ret.value = <<"coffee", "Tea">>

(***************************************************************************)
(* Properties of the resolution of names to entities.                      *)
(***************************************************************************)

\* The positions of the known entities whose similarity to the name reaches
\* the threshold.
Candidates(name, known, threshold) ==
    {i \in 1..Len(known) : Similarity(name, known[i]) >= threshold}

\* The entity is a candidate that no other candidate is more similar than.
BestCandidate(entity, name, known, threshold) ==
    \E i \in Candidates(name, known, threshold) :
        /\ entity = known[i]
        /\ \A j \in Candidates(name, known, threshold) :
             Similarity(name, known[j]) <= Similarity(name, known[i])

\* The end of a built relationship, when the extracted end is not itself
\* an entity and has candidates, is a best candidate.
EndpointResolved(name, resolved, known) ==
    (/\ name \notin Range(known)
     /\ Candidates(name, known, RelationshipThreshold) # {})
        => BestCandidate(resolved, name, known, RelationshipThreshold)

\* C30: _find_best_entity_match returns an entity whose similarity to the
\* name reaches the threshold and is the highest among the known entities,
\* and no match when no entity reaches the threshold; and each end of a
\* relationship that build_knowledge_graph resolves to an entity is
\* resolved in that way.
C30_ResolvesToBestMatch ==
    /\ (args.op = "resolve" /\ ret.kind = "returned") =>
         IF Candidates(args.entity_name, args.entity_list,
                       args.threshold) = {}
         THEN ret.value = NoMatch
         ELSE /\ ret.value.match
              /\ BestCandidate(ret.value.entity, args.entity_name,
                               args.entity_list, args.threshold)
    /\ (/\ args.op = "build"
        /\ ret.kind = "returned"
        /\ Len(args.knowledge_data.relationships) = 1
        /\ Len(ret.graph.relationships) = 1) =>
         LET known == DeduplicateEntities(args.knowledge_data.entities)
             rel == args.knowledge_data.relationships[1]
             built == ret.graph.relationships[1]
         IN /\ EndpointResolved(rel.source, built.source, known)
            /\ EndpointResolved(rel.target, built.target, known)

(***************************************************************************)
(* Properties of the judge's pure functions.                               *)
(***************************************************************************)

\* C31: resolve_conflict returns "side_a" exactly when side A's credibility
\* is the higher one, "side_b" exactly when side B's is, and "tie" exactly
\* when the two are equal; it returns nothing else.
C31_ResolveByCredibility ==
    (args.op = "resolve_conflict" /\ ret.kind = "returned") =>
        LET a == args.conflict.side_a_credibility
            b == args.conflict.side_b_credibility
        IN /\ ret.value \in {"side_a", "side_b", "tie"}
           /\ ret.value = "side_a" <=> a > b
           /\ ret.value = "side_b" <=> b > a
           /\ ret.value = "tie" <=> a = b

\* A conflict whose two sides both have credibility 1.0 has been resolved
\* as a tie.
C31_Witness ==
    /\ args.op = "resolve_conflict"
    /\ args.conflict.side_a_credibility = ScoreSteps
    /\ args.conflict.side_b_credibility = ScoreSteps
    /\ ret.kind = "returned"
    /\ ret.value = "tie"

\* C32: the overall score of three component scores between 0 and 1 is
\* between 0 and 1, and for any component scores whose weighted sum
\* 0.4 d + 0.3 c + 0.3 r is between 0 and 1 the overall score is that sum.
C32_OverallScoreInRange ==
    (args.op = "overall" /\ ret.kind = "returned") =>
        LET d == args.domain_authority
            c == args.citation_indicators
            r == args.recency
            sum == 4 * d + 3 * c + 3 * r
        IN /\ ({d, c, r} \subseteq 0..ScoreSteps)
                => ret.value \in 0..(10 * ScoreSteps)
           /\ sum \in 0..(10 * ScoreSteps) => ret.value = sum

\* Component scores of 1.0, 0.0 and one grid step have been combined.
C32_Witness ==
    /\ args.op = "overall"
    /\ args.domain_authority = ScoreSteps
    /\ args.citation_indicators = 0
    /\ args.recency = 1
    /\ ret.kind = "returned"
    /\ ret.value = 4 * ScoreSteps + 3

(***************************************************************************)
(* Properties of the adversary's single-source detection.                  *)
(***************************************************************************)

\* The documents cited for the claim of a relationship in a graph.
CitationsOf(rel, kg) ==
    {kg.relationships[j].citation :
        j \in {k \in 1..Len(kg.relationships) :
                  /\ kg.relationships[k].source = rel.source
                  /\ kg.relationships[k].relation = rel.relation
                  /\ kg.relationships[k].target = rel.target}}

\* C33: every claim of the graph that is cited from one document only is
\* reported as a weakness of type "single_source".
C33_SingleSourceDetected ==
    (args.op = "identify_single_source_claims" /\ ret.kind = "returned") =>
        \A i \in 1..Len(args.knowledge_graph.relationships) :
            LET rel == args.knowledge_graph.relationships[i]
            IN Cardinality(CitationsOf(rel, args.knowledge_graph)) = 1
                 => \E k \in 1..Len(ret.value) :
                       /\ ret.value[k].type = "single_source"
                       /\ ret.value[k].affected_claims
                            = <<<<rel.source, rel.relation, rel.target>>>>

(***************************************************************************)
(* Further properties of a run.                                            *)
(***************************************************************************)

\* C34: the documents of the state, and those a gathering phase has
\* collected so far, all have different domains.
C34_DistinctDomains ==
    LET held == sources \o new_sources
    IN \A i, j \in 1..Len(held) : i # j => held[i] # held[j]

\* The second gathering phase of a run has ended; it started with one
\* document and added a second one.
C34_Witness ==
    /\ runs["scout"] = 2
    /\ pc = "mapper"
    /\ last = [phase |-> "scout", outcome |-> "ok"]
    /\ Len(pre.data.sources) = 1
    /\ Len(sources) = 2

\* C35: the iteration counter of a run with max_iterations = N >= 1 is
\* between 0 and N in every state, and in the final state it is the number
\* of challenging phases that ran, which is between 1 and N.
C35_IterationWithinLimit ==
    /\ iteration \in 0..max_iterations
    /\ pc = "done" =>
         /\ iteration = runs["adversary"]
         /\ 1 <= iteration
         /\ iteration <= max_iterations

\* A run that was allowed two iterations has ended after one challenging
\* phase.
C35_Witness ==
    /\ pc = "done"
    /\ max_iterations = 2
    /\ runs["adversary"] = 1
    /\ iteration = 1

\* C36: after a challenging phase that was skipped or that failed, no
\* follow-up query is pending, and the decision taken next goes on to
\* scoring.
C36_FailedAdversaryProceeds ==
    [][(/\ pc = "decide"
        /\ last.phase = "adversary"
        /\ last.outcome \in {"skipped", "failed", "raised"})
          => /\ adversarial_queries = <<>>
             /\ pc' = "judge"]_vars

\* A challenging phase that started with a pending follow-up query has
\* failed, and the decision has gone on to scoring.
C36_Witness ==
    /\ pc = "judge"
    /\ last = [phase |-> "decide", outcome |-> "proceed"]
    /\ status_message = <<"adversary", "failed">>
    /\ pre.data.adversarial_queries # <<>>
    /\ adversarial_queries = <<>>

\* C38: a step issues a query, or adds one to the executed queries, only
\* while the documents held and those newly collected are fewer than
\* min_sources; and a gathering phase that started with min_sources
\* documents or more has issued no query and has left the documents and
\* the executed queries as they were.
C38_QueriesOnlyBelowThreshold ==
    [][/\ (issued' # issued \/ executed_queries' # executed_queries)
            => Len(sources) + Len(new_sources) < min_sources
       /\ (/\ pc = "scout_loop"
           /\ pc' # "scout_loop"
           /\ Len(pre.data.sources) >= min_sources)
            => /\ issued' = issued
               /\ sources' = pre.data.sources
               /\ executed_queries' = pre.data.executed_queries]_vars

\* A gathering phase that started with min_sources documents and with a
\* follow-up query to run has ended without executing it.
C38_Witness ==
    /\ pc = "mapper"
    /\ last = [phase |-> "scout", outcome |-> "ok"]
    /\ Len(pre.data.sources) >= min_sources
    /\ \E i \in 1..Len(adversarial_queries) :
         adversarial_queries[i] \notin executed_queries

\* C39: the report changes only in a step of the synthesizing phase, taken
\* with no report set and with at least one relationship in the graph;
\* whenever a report is present the synthesizing phase has run and the
\* graph holds a relationship.
C39_ReportOnlyFromSynthesis ==
    [][/\ synthesis_report' # synthesis_report
            => /\ pc = "synthesis"
               /\ synthesis_report = "none"
               /\ ~NoGraph(knowledge_graph)
       /\ synthesis_report' # "none"
            => /\ runs'["synthesis"] >= 1
               /\ ~NoGraph(knowledge_graph')]_vars

\* A run has ended with a report.
C39_Witness ==
    /\ pc = "done"
    /\ synthesis_report = "report"
    /\ last = [phase |-> "synthesis", outcome |-> "ok"]

(***************************************************************************)
(* Whose checkpoint recovery takes.                                        *)
(***************************************************************************)

RequestTopics ==
    {<<Ord.sp>>, <<Ord.us>>, <<Ord.a>>, <<Ord.sp, Ord.a>>, <<Ord.zero>>}

\* The validation of initiate_research: the stripped topic must be
\* non-empty and hold a letter or a digit.
ValidateTopic(request_topic) ==
    LET stripped == Strip(request_topic)
    IN IF stripped = <<>>
       THEN [ok |-> FALSE, status_code |-> BadRequestStatus,
             detail |-> "non-empty"]
       ELSE IF ~ \E i \in 1..Len(stripped) : IsAlnum(stripped[i])
       THEN [ok |-> FALSE, status_code |-> BadRequestStatus,
             detail |-> "alphanumeric"]
       ELSE [ok |-> TRUE, topic |-> stripped]

\* WorkflowState(topic=topic, iteration=0, current_phase="initialized", ...)
InitialState(stripped) ==
    [kind |-> "initial", topic |-> stripped, status_message |-> "initialized"]

\* What orchestrator.execute(topic) returns in the task of a session.
FinalState(s, stripped) ==
    [kind |-> "final", topic |-> stripped, run |-> s,
     status_message |-> "completed"]

SessionInit ==
    /\ WorkflowIdle
    /\ max_iterations = 1
    /\ UtilIdle
    /\ research_sessions = [s \in Sessions |-> NoSession]
    /\ session_status = [s \in Sessions |-> "absent"]
    /\ task = [s \in Sessions |-> [at |-> "none"]]

\* initiate_research with a topic that fails the validation: HTTP 400, and
\* no session.
InitiateRejected(s) ==
    /\ task[s].at = "none"
    /\ \E request_topic \in RequestTopics :
         LET checked == ValidateTopic(request_topic)
         IN /\ ~checked.ok
            /\ task' = [task EXCEPT ![s] =
                           [at |-> "rejected",
                            status_code |-> checked.status_code,
                            detail |-> checked.detail]]
    /\ UNCHANGED <<research_sessions, session_status>>
    /\ UNCHANGED <<workflowVars, utilVars>>

\* initiate_research with a valid topic: the initial state is stored under
\* a fresh identifier, the status is set to "running" and the background
\* task is added.  The coroutine has no await, so no other request runs in
\* between, and the tasks of other sessions write other keys.
InitiateResearch(s) ==
    /\ task[s].at = "none"
    /\ \E request_topic \in RequestTopics :
         LET checked == ValidateTopic(request_topic)
         IN /\ checked.ok
            /\ research_sessions' =
                  [research_sessions EXCEPT ![s] = InitialState(checked.topic)]
            /\ session_status' = [session_status EXCEPT ![s] = "running"]
            /\ task' = [task EXCEPT ![s] =
                           [at |-> "queued", topic |-> checked.topic]]
    /\ UNCHANGED <<workflowVars, utilVars>>

\* execute_workflow_background begins: session_status[session_id] =
\* "running".
TaskStarts(s) ==
    /\ task[s].at = "queued"
    /\ session_status' = [session_status EXCEPT ![s] = "running"]
    /\ task' = [task EXCEPT ![s].at = "started"]
    /\ UNCHANGED research_sessions
    /\ UNCHANGED <<workflowVars, utilVars>>

\* The orchestrator is created and orchestrator.execute(topic) returns.
ExecuteReturns(s) ==
    /\ task[s].at = "started"
    /\ task' = [task EXCEPT ![s] =
                   [at |-> "executed", topic |-> task[s].topic,
                    final_state |-> FinalState(s, task[s].topic)]]
    /\ UNCHANGED <<research_sessions, session_status>>
    /\ UNCHANGED <<workflowVars, utilVars>>

\* The creation of the orchestrator or orchestrator.execute(topic) raises.
ExecuteRaises(s) ==
    /\ task[s].at = "started"
    /\ task' = [task EXCEPT ![s].at = "raised"]
    /\ UNCHANGED <<research_sessions, session_status>>
    /\ UNCHANGED <<workflowVars, utilVars>>

\* Faulty variant of TaskStoresFinalState: the final state is not stored.
TaskSkipsStore(s) ==
    /\ task[s].at = "executed"
    /\ task' = [task EXCEPT ![s].at = "stored"]
    /\ UNCHANGED <<research_sessions, session_status>>
    /\ UNCHANGED <<workflowVars, utilVars>>

\* research_sessions[session_id] = final_state
TaskStoresFinalState(s) ==
    /\ task[s].at = "executed"
    /\ research_sessions' =
          [research_sessions EXCEPT ![s] = task[s].final_state]
    /\ task' = [task EXCEPT ![s].at = "stored"]
    /\ UNCHANGED session_status
    /\ UNCHANGED <<workflowVars, utilVars>>

\* session_status[session_id] = "completed"; the logging after it reads
\* the final state and changes nothing.
TaskCompletes(s) ==
    /\ task[s].at = "stored"
    /\ session_status' = [session_status EXCEPT ![s] = "completed"]
    /\ task' = [task EXCEPT ![s].at = "done"]
    /\ UNCHANGED research_sessions
    /\ UNCHANGED <<workflowVars, utilVars>>

\* The except block: session_status[session_id] = "failed".
TaskMarksFailed(s) ==
    /\ task[s].at = "raised"
    /\ session_status' = [session_status EXCEPT ![s] = "failed"]
    /\ task' = [task EXCEPT ![s].at = "marked"]
    /\ UNCHANGED research_sessions
    /\ UNCHANGED <<workflowVars, utilVars>>

\* The except block: the stored state, if there is one, gets the failure
\* as its status message.
TaskRecordsFailure(s) ==
    /\ task[s].at = "marked"
    /\ research_sessions' =
          IF research_sessions[s] # NoSession
          THEN [research_sessions EXCEPT ![s].status_message = "failed"]
          ELSE research_sessions
    /\ task' = [task EXCEPT ![s].at = "done"]
    /\ UNCHANGED session_status
    /\ UNCHANGED <<workflowVars, utilVars>>

\* A step of the background task of a session.
TaskStep(s) ==
    \/ TaskStarts(s)
    \/ ExecuteReturns(s)
    \/ ExecuteRaises(s)
    \/ TaskStoresFinalState(s)
    \/ TaskCompletes(s)
    \/ TaskMarksFailed(s)
    \/ TaskRecordsFailure(s)

SessionNext ==
    \E s \in Sessions :
        \/ InitiateRejected(s)
        \/ InitiateResearch(s)
        \/ TaskStarts(s)
        \/ ExecuteReturns(s)
        \/ ExecuteRaises(s)
        \/ TaskStoresFinalState(s)
        \/ TaskCompletes(s)
        \/ TaskMarksFailed(s)
        \/ TaskRecordsFailure(s)

SessionSpec == SessionInit /\ [][SessionNext]_vars

\* The server runs every queued background task, each statement of a task
\* is followed by the next, and orchestrator.execute returns or raises.
FairSessionSpec ==
    SessionSpec /\ \A s \in Sessions : WF_vars(TaskStep(s))

SessionTypeOK ==
    /\ \A s \in Sessions :
          /\ session_status[s] \in
                {"absent", "running", "completed", "failed"}
          /\ research_sessions[s].kind \in {"absent", "initial", "final"}
          /\ task[s].at \in {"none", "rejected", "queued", "started",
                             "executed", "stored", "raised", "marked",
                             "done"}

Ended == {"completed", "failed"}

\* What holds of the sessions in every state.
SessionsSound ==
    \A s \in Sessions :
        /\ session_status[s] # "absent" => research_sessions[s] # NoSession
        /\ session_status[s] = "completed" =>
              /\ research_sessions[s].kind = "final"
              /\ research_sessions[s].run = s

\* What holds of every step of the sessions.
SessionsStep ==
    \A s \in Sessions :
        /\ (research_sessions[s] = NoSession
              /\ research_sessions'[s] # NoSession) =>
                 session_status'[s] = "running"
        /\ research_sessions[s] # NoSession =>
              research_sessions'[s] # NoSession
        /\ session_status[s] \in Ended =>
              session_status'[s] = session_status[s]
        /\ session_status'[s] \in Ended =>
              session_status[s] \in Ended \cup {"running"}

\* C40: a session is created with status "running" and with a stored
\* state, which it keeps; the status "completed" is set only with the
\* final state of the session's own run stored; a status "completed" or
\* "failed" never changes; and every running session reaches one of the
\* two, whatever the other sessions do.
C40_SessionLifecycle ==
    /\ []SessionsSound
    /\ [][SessionsStep]_vars
    /\ \A s \in Sessions :
          (session_status[s] = "running") ~> (session_status[s] \in Ended)

\* Two sessions have run side by side: one completed, the other failed.
C40_Witness ==
    \E s1, s2 \in Sessions :
        /\ session_status[s1] = "completed"
        /\ research_sessions[s1].kind = "final"
        /\ session_status[s2] = "failed"
        /\ research_sessions[s2].status_message = "failed"
        /\ task[s1].at = "done"
        /\ task[s2].at = "done"

====
